---- MODULE Spec2Model ----
(***************************************************************************)
(* GoClode: the hot-reloadable configuration and event-hook runtime.       *)
(*                                                                         *)
(*   Engine         (core/engine)      config table, version trigger,      *)
(*                                     watchConfig polling loop, reloadCh  *)
(*   ModuleManager  (core/modules.go)  modules / module_hooks tables,      *)
(*                                     reload, RegisterModule/Hook, Emit,  *)
(*                                     debug ring                          *)
(*                                                                         *)
(*   IntentParser   (ui)               intent patterns, Parse              *)
(*                                                                         *)
(* The specifications share the variables:                                 *)
(*   SpecConfig    the config store and the notifier                       *)
(*   Spec          the module registry and the dispatcher                  *)
(*   SpecRegister  the registration calls, with failing store statements   *)
(*   SpecRing      the debug ring driven by logDebug                       *)
(*   SpecLog       the debug ring as a Go slice over backing arrays, with  *)
(*                 a caller of GetDebugLog                                 *)
(*   SpecSeed      initSchema run again on an existing store               *)
(*   SpecTyped     GetConfigBool / GetConfigInt                            *)
(*   SpecOrder     repeated Emit calls over an unchanged registry          *)
(*   SpecParse     IntentParser.Parse and Reload                           *)
(*   SpecStore     reload against a store written directly                 *)
(*   SpecLock      ModuleManager.mu under concurrent reload and Emit       *)
(*                 (SpecLockLive: with fair scheduling)                    *)
(*   SpecNotify    the watchConfig loop pass by pass                       *)
(*   SpecClose     Engine.Close (SpecCloseLive: with fair scheduling)      *)
(*   SpecSub       the registry's subscription to the notifier             *)
(*                 (SpecSubLive: with fair scheduling)                     *)
(*   SpecTrace     trace ids of overlapping Emit calls                     *)
(*   SpecPersist   logDebug against a store whose insert may fail          *)
(*   SpecInteg     registration and module deletion under the foreign key  *)
(*   SpecUpsert    repeated RegisterHook calls and Emit                    *)
(*   SpecShutdown  Chat.shutdown under concurrent callers                  *)
(*                 (SpecShutdownLive: with fair scheduling)                *)
(*   SpecOrphan    hooks of a disabled module                              *)
(*   SpecProbe     the notifier while module rows are written directly     *)
(***************************************************************************)
EXTENDS Integers, Sequences, FiniteSets, TLC

(***************************************************************************)
(* Bounds of the model.                                                    *)
(***************************************************************************)
\* config row versions are explored up to this value
MaxVer == 5
\* capacity of the debug ring; the source keeps the last 1000 events
\* (modules.go:353), the model keeps the last DebugLogCap
DebugLogCap == 3
\* number of DebugEvents the ring specification appends
MaxEvents == 6
\* number of ids drawn from uuid.New
MaxUuid == 6
\* number of ids the Emit calls of Spec draw from uuid.New
MaxTraceIds == 3
\* number of rows the modules table and the module_hooks table may hold
MaxRows == 2
\* number of backing arrays the slice specification allocates
MaxArrays == 4

(***************************************************************************)
(* Small input domains.                                                    *)
(***************************************************************************)
Keys == {"default_provider", "k"}
Values == {"v1", "v2"}
None == "<none>"

VARIABLES
    \* ---- Engine (persistent store: config table) ----
    config,         \* key -> [present, value, version]   (table config)
    configVersion,  \* Engine.configVersion, the notifier's cached max version
    reloadCh,       \* number of signals buffered in Engine.reloadCh (cap 1)
    pendingCb,      \* watcher goroutines started by notifyWatchers, not yet run
    \* ---- history of the config store (observation only) ----
    lastSet,        \* key -> value of the last committed write of that key
    lastOp,         \* the last committed write of the config table:
                    \* [name, key, existed, flip]; flip changes at every write
    tickBroadcasts, \* notifyWatchers broadcasts made by the notifier's last pass
    setsSinceTick,  \* committed writes since the notifier's last successful check,
                    \* counted 0, 1, 2 (= two or more)
    tickWrites,     \* setsSinceTick as the notifier's last successful check found it
    \* ---- persistent store: modules / module_hooks / learning_patterns ----
    modulesTbl,     \* sequence of module rows, in rowid order
    hooksTbl,       \* sequence of hook rows, in rowid order
    persisted,      \* ids of debug events written to learning_patterns
    \* ---- ModuleManager ----
    mmModules,      \* mm.modules: set of loaded Module values (one per id)
    mmHooks,        \* mm.hooks: event -> sequence of Hook
    debugEnabled,   \* mm.debugEnabled
    debugLog,       \* mm.debugLog
    \* ---- Emit calls in flight ----
    emit,           \* proc -> [pc, event, hooks, idx, debugCtx, trace, failed, wild,
                    \* results, traced]: the locals of the call, then what it
                    \* observed: trace the hooks invoked, results what each
                    \* handler returned, traced whether every read of the debug
                    \* flag by the call found it set
    uuidCtr,        \* number of ids drawn from uuid.New so far
    \* ---- history of the registry (observation only) ----
    regOp,          \* the last registration call: [name, arg, ok, reloaded, entry,
                    \* again, res, dropped, retry, flip]; flip changes at every
                    \* call, again marks a repeat of the call before it, dropped
                    \* a call that took the module out of the module map, retry
                    \* a call for the module id whose schema script failed just
                    \* before
    hist,           \* events appended to the ring since the last clear; in
                    \* SpecTrace the trace of the Emit calls: [kind, p, id] for
                    \* a DebugContext created ("call"), handed to a handler
                    \* ("handler"), and for an event appended ("event")
    \* ---- mm.debugLog as a Go slice (SpecLog) ----
    arrays,         \* the backing arrays allocated so far, each a sequence of cells
    logSlice,       \* slice header of mm.debugLog: [arr, off, len]
    got,            \* slice header a caller holds from GetDebugLog, as the caller
                    \* has resliced it
    gotVal,         \* the list the caller expects to hold: the copy it was
                    \* handed, with the caller's own changes applied
    \* ---- history of the dispatcher (SpecOrder) ----
    calls,          \* the Emit calls that returned after invoking a handler:
                    \* sequence of [event, hooks, trace]
    \* ---- IntentParser (SpecParse) ----
    patterns,       \* ip.patterns: intent type -> list of text patterns
    intent,         \* what the last call of Parse returned
    \* ---- history of reload (observation only) ----
    lastReload,     \* the last call of mm.reload that returned: [out, flip]; out
                    \* is how it ended, flip changes at every call
    \* ---- mm.mu and the goroutines inside reload (SpecLock) ----
    mu,             \* mm.mu: [writer, readers], the goroutine holding the write
                    \* lock and the goroutines holding the read lock
    rl,             \* goroutine -> its position in reload: "idle", "waiting"
                    \* (blocked in Lock), "cleared" (maps replaced), "modules"
                    \* (modules loaded)
    \* ---- Engine life cycle (SpecNotify, SpecClose) ----
    eng,            \* [running, cancelled, closed]: the watchConfig goroutine
                    \* is in its loop, e.ctx is cancelled, e.db is closed
    lastTick,       \* the last pass of the watchConfig loop (observation only):
                    \* [flip, err, failed, writes, notified, dropped, busy]; flip
                    \* changes at every pass, failed counts the failed reads
                    \* since the last successful one, writes the committed
                    \* writes the pass found outstanding, dropped marks a reload
                    \* signal that found the channel full, busy a broadcast
                    \* made while a watcher goroutine had not finished
    \* ---- the registry's subscription (SpecSub, observation only) ----
    subs,           \* [owed, of, last, made, back]: owed holds, for every
                    \* watcher goroutine started and not yet inside reload,
                    \* the store tables as they were at its broadcast; of[r]
                    \* the tables as they were when the reload of goroutine r
                    \* was triggered; last how the last reload to return
                    \* ended; made counts the broadcasts, back the reloads
                    \* started by a broadcast that have returned
    \* ---- Chat (SpecShutdown) ----
    chat            \* [once, pc, log]: the state of c.shutdownOnce, the
                    \* position of every caller of c.shutdown, and the steps
                    \* of the shutdown sequence executed so far

cfgVars == <<config, configVersion, reloadCh, pendingCb, lastSet, lastOp,
             tickBroadcasts, setsSinceTick, tickWrites>>
tblVars == <<modulesTbl, hooksTbl>>
regVars == <<mmModules, mmHooks>>
dbgVars == <<debugEnabled, debugLog, persisted>>
emitVars == <<emit, uuidCtr>>
sliceVars == <<arrays, logSlice, got, gotVal>>
parseVars == <<patterns, intent>>
lockVars == <<mu, rl>>
engVars == <<eng, lastTick>>
runVars == <<subs, chat>>
moreVars == <<parseVars, lastReload, lockVars, engVars, runVars>>
auxVars == <<sliceVars, calls, moreVars>>
vars == <<cfgVars, tblVars, regVars, dbgVars, emitVars, regOp, hist, auxVars>>

(***************************************************************************)
(* Engine: the config table.                                               *)
(***************************************************************************)
NoRow == [present |-> FALSE, value |-> "", version |-> 0]

\* first-run seed data of initSchema (one of the seeded keys is modelled);
\* a fresh row gets the column default version 1
SeedConfig ==
    [k \in Keys |->
        IF k = "default_provider"
        THEN [present |-> TRUE, value |-> "cerebras", version |-> 1]
        ELSE NoRow]

\* trigger config_version_bump: AFTER UPDATE ON config, version = version + 1
\* on the updated row (recursive triggers are off, it fires once per update)
config_version_bump(row) == [row EXCEPT !.version = @ + 1]

\* SetConfig written as INSERT OR REPLACE: the row is deleted and inserted
\* again, so its version falls back to the column default
SetConfigRow_Replace(row, v) == [present |-> TRUE, value |-> v, version |-> 1]

\* the statement of SetConfig: INSERT ... ON CONFLICT(key) DO UPDATE SET
\* value = excluded.value, version = version + 1; the DO UPDATE branch is an
\* update of the row, so the trigger fires after it
SetConfigRow(row, v) ==
    IF row.present
    THEN config_version_bump([row EXCEPT !.value = v, !.version = @ + 1])
    ELSE [present |-> TRUE, value |-> v, version |-> 1]

\* GetConfig: SELECT value FROM config WHERE key = ?; "" when there is no row
GetConfig(k) == IF config[k].present THEN config[k].value ELSE ""

\* SELECT COALESCE(MAX(version), 0) FROM config
RECURSIVE MaxOf(_)
MaxOf(S) ==
    IF S = {} THEN 0
    ELSE LET x == CHOOSE y \in S : TRUE
             m == MaxOf(S \ {x})
         IN IF x > m THEN x ELSE m
MaxVersion(cfg) == MaxOf({cfg[k].version : k \in {j \in Keys : cfg[j].present}})

(***************************************************************************)
(* ModuleManager: input domains of the registry.                           *)
(***************************************************************************)
\* event names; "*" is the wildcard event of NewDebugModule
Wildcard == "*"
EmitEvents == {"x", "y"}
EventNames == EmitEvents \cup {Wildcard}

\* var builtinHandlers: the names that resolve to a handler
builtinHandlers ==
    {"log", "debug", "llm_analyze", "test_assert", "auto_fix", "pattern_learn"}

\* type HookHandler func(ctx *HookContext) error: what a handler call returns
HandlerOutcomes == {"nil", "err"}

\* Module values handed to RegisterModule
Mod(id, enabled, priority, schema) ==
    [id |-> id, enabled |-> enabled, priority |-> priority, schema |-> schema]
ModuleInputs ==
    { Mod("m1", TRUE, 50, ""),
      Mod("m1", FALSE, 50, ""),
      Mod("debug", TRUE, 1, "ddl") }

\* Hook values handed to RegisterHook
Hk(id, module, event, handler, priority, enabled) ==
    [id |-> id, module |-> module, event |-> event, handler |-> handler,
     priority |-> priority, enabled |-> enabled]
HookInputs ==
    { Hk("h1", "m1", "x", "log", 10, TRUE),
      Hk("h2", "m1", "x", "debug", 5, TRUE),
      Hk("h3", "m1", "x", "nope", 7, TRUE),
      Hk("hw", "debug", Wildcard, "debug", 1, TRUE) }

(***************************************************************************)
(* Persistent store: modules and module_hooks.                             *)
(***************************************************************************)
Indices(tbl, id) == {i \in 1..Len(tbl) : tbl[i].id = id}
HasRow(tbl, id) == Indices(tbl, id) # {}

\* an insert that adds a row whether or not the id already has one
UpsertModule_Append(tbl, m) == Append(tbl, m)

\* INSERT ... ON CONFLICT(module_id) DO UPDATE SET name, version, enabled,
\* priority, config, schema_sql = excluded.*: the row keeps its rowid
UpsertModule(tbl, m) ==
    IF HasRow(tbl, m.id)
    THEN [i \in 1..Len(tbl) |-> IF tbl[i].id = m.id THEN m ELSE tbl[i]]
    ELSE Append(tbl, m)

\* an insert that adds a hook row whether or not the id already has one
UpsertHook_Append(tbl, h) == Append(tbl, h)

\* INSERT ... ON CONFLICT(hook_id) DO UPDATE SET event, handler, priority,
\* enabled, config = excluded.*: module_id is not among the updated columns
UpsertHook(tbl, h) ==
    IF HasRow(tbl, h.id)
    THEN [i \in 1..Len(tbl) |->
            IF tbl[i].id = h.id
            THEN [h EXCEPT !.module = tbl[i].module]
            ELSE tbl[i]]
    ELSE Append(tbl, h)

\* the query without its ORDER BY clause: the rows come out in rowid order
QueryEnabled_Unordered(tbl) == SelectSeq(tbl, LAMBDA r : r.enabled)

\* ... WHERE enabled = 1 ORDER BY priority: rows of equal priority come out
\* in rowid order
RECURSIVE InsertByPriority(_, _)
InsertByPriority(s, r) ==
    IF s = <<>> THEN <<r>>
    ELSE IF Head(s).priority <= r.priority
         THEN <<Head(s)>> \o InsertByPriority(Tail(s), r)
         ELSE <<r>> \o s
RECURSIVE OrderByPriority(_)
OrderByPriority(s) ==
    IF s = <<>> THEN <<>>
    ELSE InsertByPriority(OrderByPriority(SubSeq(s, 1, Len(s) - 1)), s[Len(s)])
\* a query without its WHERE enabled = 1 clause
IsEnabled_AnyRow(r) == TRUE

\* a hooks query joined with the enabled modules
IsEnabled_WithModule(r) ==
    /\ r.enabled
    /\ "module" \in DOMAIN r =>
          \E i \in DOMAIN modulesTbl :
             modulesTbl[i].id = r.module /\ modulesTbl[i].enabled

IsEnabled(r) == r.enabled
QueryEnabled(tbl) == OrderByPriority(SelectSeq(tbl, IsEnabled))

(***************************************************************************)
(* ModuleManager.reload                                                    *)
(***************************************************************************)
\* for rows.Next(): mm.modules[m.ID] = &m  (a later row replaces an earlier
\* entry of the same id)
LoadModules(rows) ==
    {rows[i] : i \in {j \in 1..Len(rows) :
                        \A l \in (j + 1)..Len(rows) : rows[l].id # rows[j].id}}

\* for hookRows.Next(): mm.hooks[h.Event] = append(mm.hooks[h.Event], &h)
LoadHooks(rows) ==
    [e \in EventNames |-> SelectSeq(rows, LAMBDA h : h.event = e)]

NoModules == {}
NoHooks == [e \in EventNames |-> <<>>]

\* how a reload ends: both queries succeed, the modules query fails, or the
\* hooks query fails
ReloadOutcomes == {"ok", "modules_err", "hooks_err"}

\* the registry after reload(): the maps are cleared first, each query result
\* is loaded when its query succeeded
reloadModules(out, mtbl) ==
    IF out = "modules_err" THEN NoModules ELSE LoadModules(QueryEnabled(mtbl))

\* a reload that keeps the lists it has and adds the hooks it reads to them
reloadHooks_Keep(out, htbl) ==
    IF out = "ok"
    THEN [e \in EventNames |-> mmHooks[e] \o LoadHooks(QueryEnabled(htbl))[e]]
    ELSE mmHooks

reloadHooks(out, htbl) ==
    IF out = "ok" THEN LoadHooks(QueryEnabled(htbl)) ELSE NoHooks

\* reload() run against the tables mtbl, htbl
reload(out, mtbl, htbl) ==
    /\ mmModules' = reloadModules(out, mtbl)
    /\ mmHooks' = reloadHooks(out, htbl)

(***************************************************************************)
(* IntentParser (package ui): strings are sequences of characters.         *)
(***************************************************************************)
\* a Go string as the sequence of its characters
Str(s) ==
    CASE s = "" -> <<>>
      [] s = "/" -> <<"/">>
      [] s = " " -> <<" ">>
      [] s = "/help" -> <<"/", "h", "e", "l", "p">>
      [] s = "/history" -> <<"/", "h", "i", "s", "t", "o", "r", "y">>
      [] s = "/diff" -> <<"/", "d", "i", "f", "f">>
      [] s = "/status" -> <<"/", "s", "t", "a", "t", "u", "s">>
      [] s = "/config" -> <<"/", "c", "o", "n", "f", "i", "g">>
      [] s = "/exit" -> <<"/", "e", "x", "i", "t">>
      [] s = "/quit" -> <<"/", "q", "u", "i", "t">>
      [] s = "/undo" -> <<"/", "u", "n", "d", "o">>
      [] s = "/redo" -> <<"/", "r", "e", "d", "o">>
      [] s = "/debug" -> <<"/", "d", "e", "b", "u", "g">>
      [] s = "/provider" -> <<"/", "p", "r", "o", "v", "i", "d", "e", "r">>
      [] s = "/provider cerebras" -> <<"/", "p", "r", "o", "v", "i", "d", "e", "r", " ", "c", "e", "r", "e", "b", "r", "a", "s">>
      [] s = "/model" -> <<"/", "m", "o", "d", "e", "l">>
      [] s = "/switch" -> <<"/", "s", "w", "i", "t", "c", "h">>
      [] s = "/switch openai" -> <<"/", "s", "w", "i", "t", "c", "h", " ", "o", "p", "e", "n", "a", "i">>
      [] s = "/frob" -> <<"/", "f", "r", "o", "b">>
      [] s = "/HELP" -> <<"/", "H", "E", "L", "P">>
      [] s = "/help undo" -> <<"/", "h", "e", "l", "p", " ", "u", "n", "d", "o">>
      [] s = "  /undo " -> <<" ", " ", "/", "u", "n", "d", "o", " ">>
      [] s = "/ help" -> <<"/", " ", "h", "e", "l", "p">>
      [] s = "//help" -> <<"/", "/", "h", "e", "l", "p">>
      [] s = "/helpme" -> <<"/", "h", "e", "l", "p", "m", "e">>
      [] s = "undo" -> <<"u", "n", "d", "o">>
      [] s = "please help" -> <<"p", "l", "e", "a", "s", "e", " ", "h", "e", "l", "p">>
      [] s = "hello" -> <<"h", "e", "l", "l", "o">>
      [] s = "use openai" -> <<"u", "s", "e", " ", "o", "p", "e", "n", "a", "i">>
      [] s = "   " -> <<" ", " ", " ">>
      [] s = "Undo it" -> <<"U", "n", "d", "o", " ", "i", "t">>
      [] s = "help" -> <<"h", "e", "l", "p">>
      [] s = "history" -> <<"h", "i", "s", "t", "o", "r", "y">>
      [] s = "diff" -> <<"d", "i", "f", "f">>
      [] s = "status" -> <<"s", "t", "a", "t", "u", "s">>
      [] s = "config" -> <<"c", "o", "n", "f", "i", "g">>
      [] s = "exit" -> <<"e", "x", "i", "t">>
      [] s = "quit" -> <<"q", "u", "i", "t">>
      [] s = "redo" -> <<"r", "e", "d", "o">>
      [] s = "debug" -> <<"d", "e", "b", "u", "g">>
      [] s = "provider" -> <<"p", "r", "o", "v", "i", "d", "e", "r">>
      [] s = "model" -> <<"m", "o", "d", "e", "l">>
      [] s = "switch" -> <<"s", "w", "i", "t", "c", "h">>
      [] s = "frob" -> <<"f", "r", "o", "b">>
      [] s = "HELP" -> <<"H", "E", "L", "P">>
      [] s = "helpme" -> <<"h", "e", "l", "p", "m", "e">>
      [] s = "cerebras" -> <<"c", "e", "r", "e", "b", "r", "a", "s">>
      [] s = "openai" -> <<"o", "p", "e", "n", "a", "i">>
      [] s = "gpt" -> <<"g", "p", "t">>
      [] s = "utilise" -> <<"u", "t", "i", "l", "i", "s", "e">>
      [] s = "use" -> <<"u", "s", "e">>
      [] s = "add" -> <<"a", "d", "d">>
      [] s = "fix" -> <<"f", "i", "x">>
      [] s = "remove" -> <<"r", "e", "m", "o", "v", "e">>
      [] s = "good" -> <<"g", "o", "o", "d">>
      [] s = "create" -> <<"c", "r", "e", "a", "t", "e">>
      [] s = "modify" -> <<"m", "o", "d", "i", "f", "y">>
      [] s = "delete" -> <<"d", "e", "l", "e", "t", "e">>

\* unicode.IsSpace for the characters of the model
IsSpace(c) == c \in {" ", "\t", "\n"}

\* strings.TrimSpace
RECURSIVE TrimLeft(_)
TrimLeft(s) == IF s # <<>> /\ IsSpace(Head(s)) THEN TrimLeft(Tail(s)) ELSE s
RECURSIVE TrimRight(_)
TrimRight(s) ==
    IF s # <<>> /\ IsSpace(s[Len(s)]) THEN TrimRight(SubSeq(s, 1, Len(s) - 1))
    ELSE s
TrimSpace(s) == TrimRight(TrimLeft(s))

\* strings.HasPrefix, strings.TrimPrefix
HasPrefix(s, pre) == Len(pre) <= Len(s) /\ SubSeq(s, 1, Len(pre)) = pre
TrimPrefix(s, pre) == IF HasPrefix(s, pre) THEN SubSeq(s, Len(pre) + 1, Len(s)) ELSE s

\* strings.Fields: the maximal runs of non-space characters
RECURSIVE FirstWord(_)
FirstWord(s) ==
    IF s = <<>> \/ IsSpace(Head(s)) THEN <<>>
    ELSE <<Head(s)>> \o FirstWord(Tail(s))
RECURSIVE Fields(_)
Fields(s) ==
    LET t == TrimLeft(s) IN
    IF t = <<>> THEN <<>>
    ELSE <<FirstWord(t)>> \o Fields(SubSeq(t, Len(FirstWord(t)) + 1, Len(t)))

\* strings.ToLower for the letters of the model
LowerChar(c) ==
    CASE c = "H" -> "h" [] c = "E" -> "e" [] c = "L" -> "l" [] c = "P" -> "p"
      [] c = "U" -> "u" [] OTHER -> c
ToLower(s) == [i \in 1..Len(s) |-> LowerChar(s[i])]

\* strings.Contains
Contains(s, sub) ==
    \E i \in 0..(Len(s) - Len(sub)) : SubSeq(s, i + 1, i + Len(sub)) = sub

\* type IntentType string and its constants IntentType.Code ... IntentType.Debug
IntentType ==
    [Code |-> "code", Undo |-> "undo", Redo |-> "redo", Switch |-> "switch",
     Question |-> "question", Command |-> "command", Help |-> "help", History |-> "history",
     Diff |-> "diff", Status |-> "status", Config |-> "config", Exit |-> "exit",
     Feedback |-> "feedback", Debug |-> "debug"]

\* type Intent; Confidence is kept in tenths; isNil marks the nil *Intent
MkIntent(type, files, action, content, provider, command, args, confidence, raw) ==
    [isNil |-> FALSE, Type |-> type, Files |-> files, Action |-> action,
     Content |-> content, Provider |-> provider, Model |-> <<>>,
     Command |-> command, Args |-> args, Confidence |-> confidence, Raw |-> raw]
NilIntent ==
    [isNil |-> TRUE, Type |-> "", Files |-> <<>>, Action |-> <<>>,
     Content |-> <<>>, Provider |-> <<>>, Model |-> <<>>,
     Command |-> <<>>, Args |-> <<>>, Confidence |-> 0, Raw |-> <<>>]

\* setDefaults (the lists are abridged to the texts of the model)
DefaultPatterns ==
    [t \in {IntentType.Undo, IntentType.Redo, IntentType.Switch, IntentType.Help, IntentType.History,
            IntentType.Diff, IntentType.Status, IntentType.Config, IntentType.Exit, IntentType.Feedback,
            IntentType.Debug} |->
        CASE t = IntentType.Undo     -> <<Str("undo")>>
          [] t = IntentType.Redo     -> <<Str("redo")>>
          [] t = IntentType.Switch   -> <<Str("utilise")>>
          [] t = IntentType.Help     -> <<Str("help"), Str("/help")>>
          [] t = IntentType.History  -> <<Str("history"), Str("/history")>>
          [] t = IntentType.Diff     -> <<Str("diff"), Str("/diff")>>
          [] t = IntentType.Status   -> <<Str("status"), Str("/status")>>
          [] t = IntentType.Config   -> <<Str("config"), Str("/config")>>
          [] t = IntentType.Exit     -> <<Str("exit"), Str("quit"), Str("/exit"), Str("/quit")>>
          [] t = IntentType.Feedback -> <<Str("good")>>
          [] t = IntentType.Debug    -> <<Str("/debug")>>]

\* ip.patterns as make(map[IntentType][]string) leaves it
NoPatterns == [t \in {} |-> <<>>]

\* rows of the table intents: action, patterns (the decoded JSON list),
\* enabled, priority
IntentRow(action, pats, enabled, priority) ==
    [action |-> action, patterns |-> pats, enabled |-> enabled,
     priority |-> priority]

\* the default intents initSchema inserts (lists abridged)
SeedIntents ==
    << IntentRow("undo", <<Str("undo")>>, TRUE, 1),
       IntentRow("switch", <<Str("utilise")>>, TRUE, 2),
       IntentRow("help", <<Str("help"), Str("/help")>>, TRUE, 3),
       IntentRow("history", <<Str("history"), Str("/history")>>, TRUE, 4),
       IntentRow("diff", <<Str("diff"), Str("/diff")>>, TRUE, 5) >>

\* contents the table intents may have when the patterns are loaded again
IntentStores ==
    { SeedIntents,
      << IntentRow("feedback", <<Str("/undo"), Str("/")>>, TRUE, 1),
         IntentRow("undo", <<Str("help")>>, TRUE, 2) >>,
      << IntentRow("question", <<Str("/frob"), Str("use")>>, TRUE, 1),
         IntentRow("exit", <<Str("/help")>>, FALSE, 2) >>,
      << IntentRow("help", <<Str("undo")>>, FALSE, 1) >>,
      << >> }

\* for rows.Next(): ip.patterns[intentType] = append(ip.patterns[intentType],
\* patterns...)
RECURSIVE AppendPatterns(_, _)
AppendPatterns(p, rows) ==
    IF rows = <<>> THEN p
    ELSE LET t == Head(rows).action
             old == IF t \in DOMAIN p THEN p[t] ELSE <<>> IN
         AppendPatterns([x \in DOMAIN p \cup {t} |->
                            IF x = t THEN old \o Head(rows).patterns ELSE p[x]],
                        Tail(rows))

\* loadPatterns: the defaults when the query fails; otherwise the rows of
\* SELECT ... FROM intents WHERE enabled = 1 ORDER BY priority are added to
\* the lists there are, and the defaults are taken when the map is empty
loadPatterns(cur, err, tbl) ==
    IF err THEN DefaultPatterns
    ELSE LET p == AppendPatterns(cur, QueryEnabled(tbl)) IN
         IF DOMAIN p = {} THEN DefaultPatterns ELSE p

(***************************************************************************)
(* Initial state: NewEngine (schema and seed rows, configVersion 0, empty  *)
(* reloadCh of capacity 1) followed by NewModuleManager (first reload of   *)
(* the empty tables, one watcher registered through OnChange).             *)
(***************************************************************************)
IdleCall ==
    [pc |-> "idle", event |-> None, hooks |-> <<>>, idx |-> 0, debugCtx |-> None,
     trace |-> <<>>, failed |-> FALSE, wild |-> <<>>, results |-> <<>>,
     traced |-> FALSE]
Procs == {"e1"}
\* the goroutines that call Emit when calls overlap
AllProcs == {"e1", "e2"}
\* the goroutines that call reload: watcher callbacks and the callers of
\* RegisterModule and RegisterHook
Reloaders == {"r1", "r2"}
\* no reload triggered; the tables of an empty store
NoStore == [modules |-> <<>>, hooks |-> <<>>]
NoTrigger == [by |-> "none", store |-> NoStore]
\* the callers of Chat.shutdown: the signal goroutine, the end of input in
\* Run, the exit command in handleIntent
Callers == {"signal", "eof", "exit"}
NoRegOp ==
    [name |-> "none", arg |-> None, ok |-> FALSE, reloaded |-> FALSE,
     entry |-> {}, again |-> FALSE, res |-> None, dropped |-> FALSE,
     retry |-> FALSE,
     flip |-> FALSE]

\* a nil slice: no backing array, length 0
NilSlice == [arr |-> 0, off |-> 0, len |-> 0]

\* the callbacks registered through OnChange: the one of NewModuleManager
Watchers == {"mm.reload"}

Init ==
    /\ config = SeedConfig
    /\ configVersion = 0
    /\ reloadCh = 0
    /\ pendingCb = 0
    /\ lastSet = [k \in Keys |-> None]
    /\ lastOp = [name |-> "none", key |-> None, existed |-> FALSE, flip |-> FALSE]
    /\ tickBroadcasts = 0
    /\ setsSinceTick = 0
    /\ tickWrites = 0
    /\ modulesTbl = <<>>
    /\ hooksTbl = <<>>
    /\ persisted = {}
    /\ mmModules = NoModules
    /\ mmHooks = NoHooks
    /\ debugEnabled = FALSE
    /\ debugLog = <<>>
    /\ emit = [p \in AllProcs |-> IdleCall]
    /\ uuidCtr = 0
    /\ regOp = NoRegOp
    /\ hist = <<>>
    /\ arrays = <<>>
    /\ logSlice = NilSlice
    /\ got = NilSlice
    /\ gotVal = <<>>
    /\ calls = <<>>
    /\ patterns = loadPatterns(NoPatterns, FALSE, SeedIntents)
    /\ intent = NilIntent
    /\ lastReload = [out |-> "ok", flip |-> FALSE]
    /\ mu = [writer |-> None, readers |-> {}]
    /\ rl = [r \in Reloaders |-> "idle"]
    /\ eng = [running |-> TRUE, cancelled |-> FALSE, closed |-> FALSE]
    /\ lastTick = [flip |-> FALSE, err |-> FALSE, failed |-> 0, writes |-> 0,
                   notified |-> FALSE, dropped |-> FALSE, busy |-> FALSE]
    /\ subs = [owed |-> <<>>, of |-> [r \in Reloaders |-> NoTrigger],
               last |-> [ok |-> FALSE, by |-> "none", store |-> NoStore],
               made |-> 0, back |-> 0]
    /\ chat = [once |-> "idle", pc |-> [c \in Callers |-> "idle"], log |-> <<>>]

(***************************************************************************)
(* Engine: SetConfig, direct updates of config rows, the notifier.         *)
(***************************************************************************)
Bump(n) == IF n < 2 THEN n + 1 ELSE 2

\* Engine.SetConfig(key, value): one statement, committed or failed as a whole
SetConfig(k, v) ==
    /\ SetConfigRow(config[k], v).version <= MaxVer
    /\ \E err \in BOOLEAN :
         IF err
         THEN UNCHANGED <<config, lastSet, lastOp, setsSinceTick>>
         ELSE /\ config' = [config EXCEPT ![k] = SetConfigRow(@, v)]
              /\ lastSet' = [lastSet EXCEPT ![k] = v]
              /\ lastOp' = [name |-> "SetConfig", key |-> k,
                            existed |-> config[k].present, flip |-> ~lastOp.flip]
              /\ setsSinceTick' = Bump(setsSinceTick)
    /\ UNCHANGED <<configVersion, reloadCh, pendingCb, tickBroadcasts, tickWrites>>
    /\ UNCHANGED <<tblVars, regVars, dbgVars, emitVars, regOp, hist>>

\* a direct update of a config row through Engine.Exec / Engine.DB():
\* UPDATE config SET value = ? WHERE key = ?; the trigger bumps the version
DirectUpdate(k, v) ==
    /\ config[k].present
    /\ config[k].version + 1 <= MaxVer
    /\ config' = [config EXCEPT ![k] = config_version_bump([@ EXCEPT !.value = v])]
    /\ lastSet' = [lastSet EXCEPT ![k] = v]
    /\ lastOp' = [name |-> "DirectUpdate", key |-> k, existed |-> TRUE,
                  flip |-> ~lastOp.flip]
    /\ setsSinceTick' = Bump(setsSinceTick)
    /\ UNCHANGED <<configVersion, reloadCh, pendingCb, tickBroadcasts, tickWrites>>
    /\ UNCHANGED <<tblVars, regVars, dbgVars, emitVars, regOp, hist>>

\* a broadcast that calls each watcher itself and returns when all have
\* returned: it leaves no goroutine started
notifyWatchers_Inline(pending) == pending

\* notifyWatchers: go fn(event) for every registered watcher; the number of
\* goroutines it leaves started
notifyWatchers(pending) == pending + Cardinality(Watchers)

\* a notifier that broadcasts once per version step it has missed
Notifications_PerVersion(maxVersion, cached) ==
    IF maxVersion > cached THEN maxVersion - cached ELSE 0

\* if maxVersion > e.configVersion { ... notifyWatchers ... }: the number of
\* broadcasts one pass makes
Notifications(maxVersion, cached) == IF maxVersion > cached THEN 1 ELSE 0

\* the goroutines pending after n calls of notifyWatchers
RECURSIVE NotifyTimes(_, _)
NotifyTimes(n, pending) ==
    IF n = 0 THEN pending ELSE NotifyTimes(n - 1, notifyWatchers(pending))

\* a push onto a channel without a capacity limit
PushReload_Unbounded(ch) == ch + 1

\* select { case e.reloadCh <- struct{}{}: default: } on a channel of capacity 1
PushReload(ch) == IF ch < 1 THEN ch + 1 ELSE ch

\* watchConfig, case <-ticker.C: one pass of the loop body
watchConfigTick(err) ==
    /\ IF err
       THEN \* the read failed: continue
            UNCHANGED <<configVersion, reloadCh, pendingCb, tickBroadcasts,
                        setsSinceTick, tickWrites>>
       ELSE LET maxVersion == MaxVersion(config) IN
            /\ setsSinceTick' = 0
            /\ tickWrites' = setsSinceTick
            /\ tickBroadcasts' = Notifications(maxVersion, configVersion)
            /\ IF maxVersion > configVersion
               THEN /\ configVersion' = maxVersion
                    /\ pendingCb' = NotifyTimes(tickBroadcasts', pendingCb)
                    /\ reloadCh' = PushReload(reloadCh)
               ELSE UNCHANGED <<configVersion, reloadCh, pendingCb>>
    /\ UNCHANGED <<config, lastSet, lastOp>>
    /\ UNCHANGED <<tblVars, regVars, dbgVars, emitVars, regOp, hist>>

\* a watcher goroutine runs: the callback of NewModuleManager calls mm.reload()
\* for the event "config_changed"
WatcherRun(out) ==
    /\ pendingCb > 0
    /\ pendingCb' = pendingCb - 1
    /\ reload(out, modulesTbl, hooksTbl)
    /\ UNCHANGED <<config, configVersion, reloadCh, lastSet, lastOp,
                   tickBroadcasts, setsSinceTick, tickWrites>>
    /\ UNCHANGED <<tblVars, dbgVars, emitVars, regOp, hist>>

\* a consumer receives from ReloadCh()
ReceiveReload ==
    /\ reloadCh > 0
    /\ reloadCh' = reloadCh - 1
    /\ UNCHANGED <<config, configVersion, pendingCb, lastSet, lastOp,
                   tickBroadcasts, setsSinceTick, tickWrites>>
    /\ UNCHANGED <<tblVars, regVars, dbgVars, emitVars, regOp, hist>>

NextConfig ==
    \/ UNCHANGED auxVars /\ \E k \in Keys, v \in Values : SetConfig(k, v)
    \/ UNCHANGED auxVars /\ \E k \in Keys, v \in Values : DirectUpdate(k, v)
    \/ UNCHANGED auxVars /\ \E err \in BOOLEAN : watchConfigTick(err)
    \/ UNCHANGED auxVars /\ \E out \in ReloadOutcomes : WatcherRun(out)
    \/ UNCHANGED auxVars /\ ReceiveReload

SpecConfig == Init /\ [][NextConfig]_vars

(***************************************************************************)
(* ModuleManager: RegisterModule, RegisterHook.                            *)
(***************************************************************************)
\* uuid.New().String(): the n-th id drawn
Uuid(n) == ToString(n)

\* how a registration call ends before its reload: the upsert fails, the
\* schema script fails, or both statements are done
RegisterOutcomes == {"exec_err", "schema_err", "done"}

\* a RegisterModule that runs upsert and schema script in one transaction:
\* the row is kept only when both are done
RegisterModule_Rollback(m, res, out) ==
    /\ Len(UpsertModule(modulesTbl, m)) <= MaxRows
    /\ res = "schema_err" => m.schema # ""
    /\ res # "done" => out = "ok"
    /\ modulesTbl' = IF res = "done" THEN UpsertModule(modulesTbl, m)
                     ELSE modulesTbl
    /\ IF res = "done"
       THEN reload(out, modulesTbl', hooksTbl)
       ELSE UNCHANGED regVars
    /\ UNCHANGED <<hooksTbl, cfgVars, dbgVars, emitVars>>

\* RegisterModule(m): upsert; run m.SchemaSQL when there is one; reload and
\* drop its result
RegisterModule(m, res, out) ==
    /\ Len(UpsertModule(modulesTbl, m)) <= MaxRows
    /\ res = "schema_err" => m.schema # ""
    /\ res # "done" => out = "ok"
    /\ modulesTbl' = IF res = "exec_err" THEN modulesTbl
                     ELSE UpsertModule(modulesTbl, m)
    /\ IF res = "done"
       THEN reload(out, modulesTbl', hooksTbl)
       ELSE UNCHANGED regVars
    /\ UNCHANGED <<hooksTbl, cfgVars, dbgVars, emitVars>>

\* FOREIGN KEY(module_id) REFERENCES modules(module_id), checked for the row
\* the statement inserts (foreign_keys is ON); the DO UPDATE branch leaves
\* module_id as it is
ForeignKeyOk(h) == HasRow(hooksTbl, h.id) \/ HasRow(modulesTbl, h.module)

\* RegisterHook(h): generate an id when h.ID is empty; upsert; reload and
\* drop its result
RegisterHook(h0, res, out) ==
    LET h == IF h0.id = "" THEN [h0 EXCEPT !.id = Uuid(uuidCtr + 1)] ELSE h0 IN
    /\ h0.id = "" => uuidCtr < MaxUuid
    /\ uuidCtr' = IF h0.id = "" THEN uuidCtr + 1 ELSE uuidCtr
    /\ Len(UpsertHook(hooksTbl, h)) <= MaxRows
    /\ res # "schema_err"
    /\ res # "done" => out = "ok"
    /\ ~ForeignKeyOk(h) => res = "exec_err"
    /\ hooksTbl' = IF res = "exec_err" THEN hooksTbl ELSE UpsertHook(hooksTbl, h)
    /\ IF res = "done"
       THEN reload(out, modulesTbl, hooksTbl')
       ELSE UNCHANGED regVars
    /\ UNCHANGED <<modulesTbl, emit, cfgVars, dbgVars>>

(***************************************************************************)
(* ModuleManager: the debug flag and the debug ring.                       *)
(***************************************************************************)
EnableDebug ==
    /\ debugEnabled' = TRUE
    /\ UNCHANGED <<debugLog, persisted, cfgVars, tblVars, regVars, emitVars>>

DisableDebug ==
    /\ debugEnabled' = FALSE
    /\ UNCHANGED <<debugLog, persisted, cfgVars, tblVars, regVars, emitVars>>

\* a ring that evicts only once it is over its capacity
RingAppend_OffByOne(log, ev) ==
    IF Len(log) > DebugLogCap THEN Append(Tail(log), ev) ELSE Append(log, ev)

\* if len(mm.debugLog) >= 1000 { mm.debugLog = mm.debugLog[1:] };
\* mm.debugLog = append(mm.debugLog, event)
RingAppend(log, ev) ==
    IF Len(log) >= DebugLogCap THEN Append(Tail(log), ev) ELSE Append(log, ev)

\* a logDebug that keeps in the ring only what it could write to the store
logDebug_PersistOrDrop(ev, persistOk) ==
    IF ~debugEnabled \/ ~persistOk
    THEN UNCHANGED <<debugLog, persisted>>
    ELSE /\ debugLog' = RingAppend(debugLog, ev)
         /\ persisted' = persisted \cup {ev.id}

\* a logDebug that records failures only
logDebug_ErrorsOnly(ev, persistOk) ==
    IF ~debugEnabled \/ ev.level # "error"
    THEN UNCHANGED <<debugLog, persisted>>
    ELSE /\ debugLog' = RingAppend(debugLog, ev)
         /\ persisted' = IF persistOk THEN persisted \cup {ev.id} ELSE persisted

\* logDebug(event): nothing when the flag is off; otherwise append to the
\* ring and insert into learning_patterns, ignoring the result of the insert
logDebug(ev, persistOk) ==
    IF ~debugEnabled
    THEN UNCHANGED <<debugLog, persisted>>
    ELSE /\ debugLog' = RingAppend(debugLog, ev)
         /\ persisted' = IF persistOk THEN persisted \cup {ev.id} ELSE persisted

\* an event that takes its own id as its trace id
DebugEvent_OwnTrace(id, trace, level, event, module) ==
    [id |-> id, trace |-> id, level |-> level, event |-> event,
     module |-> module]

\* DebugEvent{ID: ..., TraceID: ..., Level: ..., Event: ..., Module: ...}
DebugEvent(id, trace, level, event, module) ==
    [id |-> id, trace |-> trace, level |-> level, event |-> event,
     module |-> module]

(***************************************************************************)
(* ModuleManager.Emit, one call per process, one step per hook.            *)
(***************************************************************************)
\* a nil pointer dereference is a run-time panic; nothing recovers it, the
\* process ends
Crashed == \E p \in Procs : emit[p].pc = "panicked"

\* after the last hook the loop ends and Emit returns nil
AfterHook(c) ==
    IF c.idx >= Len(c.hooks)
    THEN [c EXCEPT !.pc = "returned", !.idx = @ + 1]
    ELSE [c EXCEPT !.pc = "loop", !.idx = @ + 1]

\* an index whose iteration order varies from one call to the next
Lookup_Unstable(hooks, event) ==
    IF uuidCtr % 2 = 0
    THEN hooks[event]
    ELSE [i \in 1..Len(hooks[event]) |-> hooks[event][Len(hooks[event]) + 1 - i]]

\* hooks := mm.hooks[event], read under the read lock
Lookup(hooks, event) == hooks[event]

\* Emit(event, payload) up to the loop: the locked lookup, the empty-list
\* return, the debug context
EmitCall(p, e) ==
    LET hooks == Lookup(mmHooks, e) IN
    /\ emit[p].pc \in {"idle", "returned"}
    /\ debugEnabled => uuidCtr + 1 + Len(hooks) <= MaxUuid
    /\ IF Len(hooks) = 0
       THEN /\ emit' = [emit EXCEPT ![p] =
                          [IdleCall EXCEPT !.pc = "returned", !.event = e,
                                           !.wild = mmHooks[Wildcard],
                                           !.traced = debugEnabled]]
            /\ UNCHANGED uuidCtr
       ELSE /\ emit' = [emit EXCEPT ![p] =
                          [IdleCall EXCEPT
                             !.pc = "loop", !.event = e, !.hooks = hooks,
                             !.idx = 1, !.wild = mmHooks[Wildcard],
                             !.traced = debugEnabled,
                             !.debugCtx = IF debugEnabled
                                          THEN Uuid(uuidCtr + 1) ELSE None]]
            /\ uuidCtr' = IF debugEnabled THEN uuidCtr + 1 ELSE uuidCtr
    /\ UNCHANGED <<cfgVars, tblVars, regVars, dbgVars>>

\* a loop that reads the registry anew at every iteration
EmitHook_Live(p) ==
    LET c == emit[p]
        live == Lookup(mmHooks, c.event) IN
    /\ c.pc = "loop"
    /\ IF c.idx > Len(live)
       THEN emit' = [emit EXCEPT ![p] = [c EXCEPT !.pc = "returned"]]
       ELSE IF live[c.idx].handler \in builtinHandlers
            THEN emit' = [emit EXCEPT ![p] =
                            [c EXCEPT !.pc = "handler",
                                      !.trace = Append(@, live[c.idx])]]
            ELSE emit' = [emit EXCEPT ![p] = AfterHook(c)]
    /\ UNCHANGED <<uuidCtr, cfgVars, tblVars, regVars, dbgVars>>

\* a loop that ends at the first handler name that does not resolve
EmitHook_StopAtUnknown(p) ==
    LET c == emit[p]
        hook == c.hooks[c.idx] IN
    /\ c.pc = "loop"
    /\ IF hook.handler \in builtinHandlers
       THEN emit' = [emit EXCEPT ![p] =
                       [c EXCEPT !.pc = "handler", !.trace = Append(@, hook)]]
       ELSE emit' = [emit EXCEPT ![p] = [c EXCEPT !.pc = "returned"]]
    /\ UNCHANGED <<uuidCtr, cfgVars, tblVars, regVars, dbgVars>>

\* for _, hook := range hooks: the handler lookup; a name that does not
\* resolve is passed over, a resolved handler is called
EmitHook(p) ==
    LET c == emit[p]
        hook == c.hooks[c.idx] IN
    /\ c.pc = "loop"
    /\ IF hook.handler \in builtinHandlers
       THEN emit' = [emit EXCEPT ![p] =
                       [c EXCEPT !.pc = "handler", !.trace = Append(@, hook)]]
       ELSE emit' = [emit EXCEPT ![p] = AfterHook(c)]
    /\ UNCHANGED <<uuidCtr, cfgVars, tblVars, regVars, dbgVars>>

\* the handler returns res; the DebugEvent literal reads debugCtx.TraceID,
\* which panics when debugCtx is nil; otherwise logDebug gets the event
EmitHandlerReturn(p, res, persistOk) ==
    LET c == emit[p]
        hook == c.hooks[c.idx] IN
    /\ c.pc = "handler"
    /\ IF c.debugCtx = None
       THEN /\ emit' = [emit EXCEPT ![p] =
                          [c EXCEPT !.pc = "panicked",
                                    !.failed = @ \/ res = "err",
                                    !.results = Append(@, res)]]
            /\ UNCHANGED <<uuidCtr, dbgVars>>
       ELSE /\ emit' = [emit EXCEPT ![p] =
                          AfterHook([c EXCEPT !.failed = @ \/ res = "err",
                                              !.results = Append(@, res),
                                              !.traced = @ /\ debugEnabled])]
            /\ uuidCtr' = uuidCtr + 1
            /\ logDebug(DebugEvent(Uuid(uuidCtr + 1), c.debugCtx,
                                   IF res = "err" THEN "error" ELSE "debug",
                                   c.event, hook.module),
                        persistOk)
            /\ UNCHANGED debugEnabled
    /\ UNCHANGED <<cfgVars, tblVars, regVars>>

(***************************************************************************)
(* Spec: the registry and the dispatcher.  The store queries of reload and *)
(* the writes to learning_patterns succeed here (their failures are        *)
(* explored by SpecRegister and SpecRing); regOp and hist are not recorded.*)
(***************************************************************************)
\* the steps of Spec leave the histories of the other specifications alone
Quiet == ~Crashed /\ UNCHANGED <<regOp, hist, auxVars>>

Next ==
    \/ Quiet /\ \E m \in ModuleInputs, res \in RegisterOutcomes :
                  RegisterModule(m, res, "ok")
    \/ Quiet /\ \E h \in HookInputs, res \in RegisterOutcomes :
                  RegisterHook(h, res, "ok")
    \/ Quiet /\ EnableDebug
    \/ Quiet /\ DisableDebug
    \/ Quiet /\ \E p \in Procs, e \in EmitEvents :
                  /\ debugEnabled =>
                        uuidCtr + 1 + Len(Lookup(mmHooks, e)) <= MaxTraceIds
                  /\ EmitCall(p, e)
    \/ Quiet /\ \E p \in Procs : EmitHook(p)
    \/ Quiet /\ \E p \in Procs, res \in HandlerOutcomes : EmitHandlerReturn(p, res, TRUE)

Spec == Init /\ [][Next]_vars

(***************************************************************************)
(* SpecRegister: the registration calls alone, each recorded in regOp.     *)
(***************************************************************************)
\* the in-memory entries of module id
Entry(mods, id) == {m \in mods : m.id = id}

Record(name, arg, res, out) ==
    regOp' = [name |-> name, arg |-> arg, ok |-> res = "done",
              reloaded |-> (res = "done" /\ out = "ok"),
              entry |-> IF name = "RegisterModule"
                        THEN Entry(mmModules', arg.id) ELSE {},
              again |-> (/\ regOp.name = name
                         /\ regOp.arg = arg
                         /\ regOp.reloaded
                         /\ res = "done" /\ out = "ok"),
              res |-> res,
              dropped |-> (/\ name = "RegisterModule"
                           /\ Entry(mmModules, arg.id) # {}
                           /\ Entry(mmModules', arg.id) = {}),
              retry |-> (/\ name = "RegisterModule"
                         /\ regOp.name = name
                         /\ regOp.arg.id = arg.id
                         /\ regOp.res = "schema_err"),
              flip |-> ~regOp.flip]

NextRegister ==
    \/ \E m \in ModuleInputs, res \in RegisterOutcomes, out \in ReloadOutcomes :
         /\ RegisterModule(m, res, out)
         /\ Record("RegisterModule", m, res, out)
         /\ UNCHANGED <<hist, auxVars>>
    \/ \E h \in HookInputs, res \in RegisterOutcomes, out \in ReloadOutcomes :
         /\ RegisterHook(h, res, out)
         /\ Record("RegisterHook", h, res, out)
         /\ UNCHANGED <<hist, auxVars>>

SpecRegister == Init /\ [][NextRegister]_vars

(***************************************************************************)
(* SpecRing: the debug ring driven by logDebug, the flag and ClearDebugLog.*)
(***************************************************************************)
\* a ClearDebugLog that also deletes the mirrored rows
ClearDebugLog_Purge ==
    /\ debugLog' = <<>>
    /\ persisted' = {}
    /\ UNCHANGED <<debugEnabled, cfgVars, tblVars, regVars, emitVars>>

\* ClearDebugLog: mm.debugLog = mm.debugLog[:0]
ClearDebugLog ==
    /\ debugLog' = <<>>
    /\ UNCHANGED <<debugEnabled, persisted, cfgVars, tblVars, regVars, emitVars>>

\* one call of logDebug with a fresh event
LogEvent(persistOk) ==
    LET ev == DebugEvent(Uuid(uuidCtr + 1), "t", "debug", "x", "m1") IN
    /\ uuidCtr < MaxEvents
    /\ uuidCtr' = uuidCtr + 1
    /\ logDebug(ev, persistOk)
    /\ hist' = IF debugEnabled THEN Append(hist, ev) ELSE hist
    /\ UNCHANGED <<debugEnabled, emit, cfgVars, tblVars, regVars, regOp>>

NextRing ==
    \/ UNCHANGED auxVars /\ \E persistOk \in BOOLEAN : LogEvent(persistOk)
    \/ EnableDebug /\ UNCHANGED <<regOp, hist, auxVars>>
    \/ DisableDebug /\ UNCHANGED <<regOp, hist, auxVars>>
    \/ ClearDebugLog /\ hist' = <<>> /\ UNCHANGED <<regOp, auxVars>>

SpecRing == Init /\ [][NextRing]_vars

(***************************************************************************)
(* Claims about the config store and the notifier (SpecConfig).            *)
(***************************************************************************)
\* a step that commits a write of the config table
IsWrite == lastOp'.flip # lastOp.flip

\* C1: for every sequence of SetConfig calls and direct updates of a config
\* row, GetConfig(k) returns the value of the most recently committed write
\* of k, and every committed write leaves the version of its key strictly
\* greater than it was before the write.
C1_GetLatestVersionGrows ==
    /\ [](\A k \in Keys : lastSet[k] # None => GetConfig(k) = lastSet[k])
    /\ [][IsWrite =>
            config'[lastOp'.key].version > config[lastOp'.key].version]_vars

\* C1 witness: a second SetConfig of key "k" has been committed after a direct
\* update of it, and GetConfig returns its value
C1_Witness ==
    /\ lastOp.name = "SetConfig" /\ lastOp.key = "k" /\ lastOp.existed
    /\ config["k"].version = 4
    /\ lastSet["k"] = "v2" /\ GetConfig("k") = "v2"

\* C2: a SetConfig on a key that already has a row raises the version of that
\* key by exactly one.
C2_SetRaisesVersionByOne ==
    [][(IsWrite /\ lastOp'.name = "SetConfig" /\ lastOp'.existed) =>
         config'[lastOp'.key].version = config[lastOp'.key].version + 1]_vars

\* C8: any number (two or more) of writes committed between two consecutive
\* checks of the notifier produce at most one watcher broadcast at the next
\* check, and never more than one pending reload signal.
C8_Coalescing ==
    /\ reloadCh <= 1
    /\ tickWrites >= 2 => tickBroadcasts <= 1

\* C8 witness: a check that found two or more writes made one broadcast and
\* left one reload signal pending
C8_Witness == tickWrites = 2 /\ tickBroadcasts = 1 /\ reloadCh = 1

\* C9: notification is at least once: a successful check of the notifier that
\* follows a committed write (new or existing key) broadcasts to the watchers.
C9_AtLeastOnce ==
    [][(setsSinceTick > 0 /\ setsSinceTick' = 0) => tickBroadcasts' >= 1]_vars

(***************************************************************************)
(* Claims about the dispatcher (Spec).                                     *)
(***************************************************************************)
\* the hooks of a list whose handler name resolves
Resolvable(hooks) == {hooks[i] : i \in {j \in 1..Len(hooks) :
                                          hooks[j].handler \in builtinHandlers}}
Invoked(c) == {c.trace[i] : i \in 1..Len(c.trace)}

\* C3: in every Emit call the handlers are invoked in ascending priority: a
\* hook of numerically lower priority is never invoked after a hook of higher
\* priority registered on the same event.
C3_PriorityOrder ==
    \A p \in Procs :
        LET t == emit[p].trace IN
        \A i, j \in 1..Len(t) :
            (/\ t[i].event = emit[p].event
             /\ t[j].event = emit[p].event
             /\ t[i].priority < t[j].priority) => i < j

\* C3 witness: h1 (priority 10) was registered before h2 (priority 5), and an
\* Emit("x") has invoked h2 and then h1 and returned
C3_Witness ==
    /\ Len(hooksTbl) = 2 /\ hooksTbl[1].id = "h1" /\ hooksTbl[2].id = "h2"
    /\ \E p \in Procs :
         /\ emit[p].pc = "returned" /\ emit[p].event = "x"
         /\ Len(emit[p].trace) = 2
         /\ emit[p].trace[1].id = "h2" /\ emit[p].trace[1].priority = 5
         /\ emit[p].trace[2].id = "h1" /\ emit[p].trace[2].priority = 10

\* C4: an enabled wildcard hook is invoked by Emit for every event name: an
\* Emit call that has returned has invoked every hook with a resolvable
\* handler that the wildcard list held at its lookup (also when the event has
\* no exact hook), in ascending priority order with the exact hooks.
C4_WildcardDispatched ==
    \A p \in Procs :
        emit[p].pc = "returned" =>
            /\ Resolvable(emit[p].wild) \subseteq Invoked(emit[p])
            /\ \A i, j \in 1..Len(emit[p].trace) :
                 emit[p].trace[i].priority < emit[p].trace[j].priority => i < j

C6_EmitNeverPanics == \A p \in Procs : emit[p].pc # "panicked"

(***************************************************************************)
(* Claims about the debug ring (SpecRing).                                 *)
(***************************************************************************)
Min(a, b) == IF a < b THEN a ELSE b
LastOf(s, n) == SubSeq(s, Len(s) - n + 1, Len(s))

\* C7: the ring never holds more than its capacity, and it holds exactly the
\* most recent events appended since it was last cleared, in their order: an
\* append at capacity evicts the oldest event, so after capacity + 1 appends
\* the capacity most recent events are retained.
C7_RingBound ==
    /\ Len(debugLog) <= DebugLogCap
    /\ debugLog = LastOf(hist, Min(Len(hist), DebugLogCap))

\* C7 witness: capacity + 1 events were appended; the ring is full and starts
\* at the second of them
C7_Witness ==
    /\ Len(hist) = DebugLogCap + 1
    /\ Len(debugLog) = DebugLogCap
    /\ debugLog[1] = hist[2]
    /\ debugLog[DebugLogCap] = hist[DebugLogCap + 1]

(***************************************************************************)
(* Claims about registration (SpecRegister).                               *)
(***************************************************************************)
\* C10: RegisterModule is idempotent: when a RegisterModule call whose reload
\* succeeded is followed by a second call with identical fields whose reload
\* succeeded, the store holds exactly one row for the module id, equal to the
\* fields, and the in-memory entry for the id is the one present after the
\* first call (one entry for an enabled module).
C10_RegisterModuleIdempotent ==
    [][(regOp'.flip # regOp.flip /\ regOp'.name = "RegisterModule" /\ regOp'.again) =>
         LET m == regOp'.arg IN
         /\ Cardinality(Indices(modulesTbl', m.id)) = 1
         /\ \A i \in Indices(modulesTbl', m.id) : modulesTbl'[i] = m
         /\ modulesTbl' = modulesTbl
         /\ regOp'.entry = regOp.entry
         /\ regOp'.entry = IF m.enabled THEN {m} ELSE {}]_vars

\* C10 witness: module "debug" was registered twice in a row with identical
\* fields, after m1; it has one row and one in-memory entry
C10_Witness ==
    /\ regOp.name = "RegisterModule" /\ regOp.again
    /\ regOp.arg.id = "debug"
    /\ Len(modulesTbl) = 2
    /\ Cardinality(Indices(modulesTbl, "debug")) = 1
    /\ Cardinality(Entry(mmModules, "debug")) = 1

(***************************************************************************)
(* Claims about the events of a dispatch (Spec).                           *)
(***************************************************************************)
\* the events of the ring that carry the trace id of call c
EventsOf(c) == SelectSeq(debugLog, LAMBDA ev : ev.trace = c.debugCtx)
\* the hooks of a list whose handler name resolves, in the order of the list
ResolvedHooks(hooks) == SelectSeq(hooks, LAMBDA h : h.handler \in builtinHandlers)

\* C11: an Emit call that found the debug flag set at every read and has
\* returned has put into the debug log exactly one DebugEvent per hook of its
\* list whose handler resolves, in dispatch order: level "error" when the
\* handler failed and "debug" when it succeeded, event the emitted event,
\* module the owning module of the hook; and no other event.
C11_OneEventPerHook ==
    \A p \in Procs :
        LET c == emit[p]
            mine == EventsOf(c) IN
        (c.pc = "returned" /\ c.traced) =>
            /\ c.trace = ResolvedHooks(c.hooks)
            /\ Len(mine) = Len(c.trace)
            /\ \A i \in 1..Len(mine) :
                 /\ mine[i].level = IF c.results[i] = "err" THEN "error" ELSE "debug"
                 /\ mine[i].event = c.event
                 /\ mine[i].module = c.trace[i].module

\* C11 witness: module m1 with the one hook h1 (handler "log") on "x"; a traced
\* Emit("x") has returned and the log holds exactly one success event with
\* event "x" and module "m1"
C11_Witness ==
    /\ Len(hooksTbl) = 1 /\ hooksTbl[1].id = "h1" /\ hooksTbl[1].handler = "log"
    /\ \E p \in Procs :
         /\ emit[p].pc = "returned" /\ emit[p].traced /\ emit[p].event = "x"
         /\ Len(emit[p].trace) = 1
    /\ Len(debugLog) = 1
    /\ debugLog[1].level = "debug"
    /\ debugLog[1].event = "x"
    /\ debugLog[1].module = "m1"

\* C12: a hook whose handler name is not a builtin is accepted by RegisterHook
\* (the call can complete whenever the store takes the row), and at dispatch
\* it is passed over silently: the step over it invokes nothing, records no
\* DebugEvent and goes on to the next hook; no hook with an unknown handler is
\* ever invoked, and a call that returns has invoked every other hook of its
\* list in order.
C12_UnknownHandlerSkipped ==
    /\ [](\A h \in HookInputs :
            (/\ h.handler \notin builtinHandlers
             /\ ~Crashed
             /\ ForeignKeyOk(h)
             /\ Len(UpsertHook(hooksTbl, h)) <= MaxRows)
            => ENABLED RegisterHook(h, "done", "ok"))
    /\ [](\A p \in Procs :
            /\ \A i \in 1..Len(emit[p].trace) :
                 emit[p].trace[i].handler \in builtinHandlers
            /\ emit[p].pc = "returned" =>
                 emit[p].trace = ResolvedHooks(emit[p].hooks))
    /\ [][\A p \in Procs :
            (/\ emit[p].pc = "loop"
             /\ emit[p].hooks[emit[p].idx].handler \notin builtinHandlers
             /\ emit'[p] # emit[p])
            => /\ emit'[p].pc \in {"loop", "returned"}
               /\ emit'[p].pc = "loop" => emit'[p].idx = emit[p].idx + 1
               /\ emit'[p].pc = "returned" => emit[p].idx = Len(emit[p].hooks)
               /\ emit'[p].trace = emit[p].trace
               /\ emit'[p].results = emit[p].results
               /\ debugLog' = debugLog
               /\ persisted' = persisted]_vars

\* C12 witness: h3 (handler "nope", priority 7) and h1 (handler "log", priority
\* 10) are registered on "x"; a traced Emit("x") has passed over h3, invoked
\* h1 and returned with one DebugEvent in the log
C12_Witness ==
    /\ \E i \in 1..Len(hooksTbl) : hooksTbl[i].id = "h3" /\ hooksTbl[i].handler = "nope"
    /\ \E p \in Procs :
         /\ emit[p].pc = "returned" /\ emit[p].traced
         /\ Len(emit[p].hooks) = 2
         /\ emit[p].hooks[1].id = "h3" /\ emit[p].hooks[2].id = "h1"
         /\ Len(emit[p].trace) = 1 /\ emit[p].trace[1].id = "h1"
         /\ Len(EventsOf(emit[p])) = 1
    /\ Len(debugLog) = 1

(***************************************************************************)
(* Further claims about registration (SpecRegister).                       *)
(***************************************************************************)
\* the row of id in a table
RowOf(tbl, id) == tbl[CHOOSE i \in Indices(tbl, id) : TRUE]

\* C13: when RegisterModule or RegisterHook has returned success, a reload has
\* completed successfully after the upsert: the in-memory registry is the
\* enabled content of the store, so it holds the registered row (an enabled
\* module is in the module map, an enabled hook is in the list of its event).
C13_SuccessMeansReloaded ==
    regOp.ok =>
        /\ mmModules = LoadModules(QueryEnabled(modulesTbl))
        /\ mmHooks = LoadHooks(QueryEnabled(hooksTbl))
        /\ (regOp.name = "RegisterModule" /\ regOp.arg.enabled) =>
              regOp.arg \in mmModules
        /\ (regOp.name = "RegisterHook" /\ regOp.arg.enabled) =>
              \E i \in 1..Len(mmHooks[regOp.arg.event]) :
                  mmHooks[regOp.arg.event][i] = RowOf(hooksTbl, regOp.arg.id)

\* C14: when the schema script of a module fails, RegisterModule returns an
\* error while the upserted row stays in the store, equal to the fields of the
\* call; the next RegisterModule of the same id, whether it succeeds or fails,
\* leaves exactly one row for the id; no module id ever has a second row.
C14_SchemaFailureKeepsRow ==
    /\ [](\A i, j \in 1..Len(modulesTbl) :
            modulesTbl[i].id = modulesTbl[j].id => i = j)
    /\ [][(regOp'.flip # regOp.flip /\ regOp'.res = "schema_err") =>
            /\ regOp'.name = "RegisterModule"
            /\ ~regOp'.ok
            /\ modulesTbl' = UpsertModule(modulesTbl, regOp'.arg)
            /\ RowOf(modulesTbl', regOp'.arg.id) = regOp'.arg]_vars
    /\ [][(regOp'.flip # regOp.flip /\ regOp'.retry) =>
            /\ Cardinality(Indices(modulesTbl', regOp'.arg.id)) = 1
            /\ Len(modulesTbl') = Len(modulesTbl)]_vars

\* C14 witness: the schema script of module "debug" failed, its row stayed,
\* and the retry went through with still one row for "debug"
C14_Witness ==
    /\ regOp.name = "RegisterModule" /\ regOp.arg.id = "debug"
    /\ regOp.retry /\ regOp.ok
    /\ Cardinality(Indices(modulesTbl, "debug")) = 1
    /\ RowOf(modulesTbl, "debug") = regOp.arg

\* the module ids of the inputs
ModuleIds == {m.id : m \in ModuleInputs}

\* C15: after a successful reload the module map holds a module id if and only
\* if the store has an enabled row for it; a module re-registered as disabled
\* has left the map while its row is still in the store.
C15_MapIffEnabled ==
    regOp.reloaded =>
        /\ \A id \in ModuleIds :
             Entry(mmModules, id) # {}
                 <=> (HasRow(modulesTbl, id) /\ RowOf(modulesTbl, id).enabled)
        /\ \A m \in mmModules : m.id \in ModuleIds /\ m = RowOf(modulesTbl, m.id)
        /\ regOp.dropped =>
             /\ HasRow(modulesTbl, regOp.arg.id)
             /\ ~RowOf(modulesTbl, regOp.arg.id).enabled

\* C15 witness: m1 was in the module map and has been re-registered with
\* enabled = false; after the reload it is absent from the map and its row,
\* now disabled, is still in the store
C15_Witness ==
    /\ regOp.reloaded /\ regOp.dropped /\ regOp.arg.id = "m1"
    /\ Entry(mmModules, "m1") = {}
    /\ HasRow(modulesTbl, "m1")
    /\ ~RowOf(modulesTbl, "m1").enabled

(***************************************************************************)
(* SpecLog: mm.debugLog as a Go slice.  A slice is a header [arr, off, len] *)
(* over a backing array; its capacity is what is left of the array after   *)
(* off.  debugLog and gotVal keep the lists as values: debugLog follows the *)
(* operations of the ring, gotVal the operations of the caller.            *)
(***************************************************************************)
\* cap(s)
Cap(arrs, sl) == IF sl.arr = 0 THEN 0 ELSE Len(arrs[sl.arr]) - sl.off

\* the elements of s
View(arrs, sl) == [i \in 1..sl.len |-> arrs[sl.arr][sl.off + i]]

\* the zero value of DebugEvent
ZeroEvent == DebugEvent("", "", "", "", "")

\* the capacities append may give the array it allocates for a slice of n
\* elements: at least n + 1, up to twice n (the growth is the runtime's choice)
GrowCaps(n) == IF n = 0 THEN {1} ELSE {n + 1, 2 * n}

\* append(s, ev): in place when the capacity allows, otherwise into a new
\* array of capacity newcap holding a copy of the elements
GoAppend(arrs, sl, ev, newcap) ==
    IF sl.len < Cap(arrs, sl)
    THEN [arrays |-> [arrs EXCEPT ![sl.arr][sl.off + sl.len + 1] = ev],
          slice |-> [sl EXCEPT !.len = @ + 1]]
    ELSE [arrays |-> Append(arrs,
                            [i \in 1..newcap |->
                                IF i <= sl.len THEN arrs[sl.arr][sl.off + i]
                                ELSE IF i = sl.len + 1 THEN ev ELSE ZeroEvent]),
          slice |-> [arr |-> Len(arrs) + 1, off |-> 0, len |-> sl.len + 1]]

\* logDebug on the slice: mm.debugLog = mm.debugLog[1:] at capacity, then
\* mm.debugLog = append(mm.debugLog, event); two events more than the
\* capacity are appended, and an event dropped because the flag is off
\* leaves no trace
LogDebugSlice ==
    LET ev == DebugEvent(Uuid(uuidCtr + 1), "t", "debug", "x", "m1")
        s1 == IF logSlice.len >= DebugLogCap
              THEN [logSlice EXCEPT !.off = @ + 1, !.len = @ - 1]
              ELSE logSlice IN
    /\ uuidCtr < DebugLogCap + 2
    /\ uuidCtr' = IF debugEnabled THEN uuidCtr + 1 ELSE uuidCtr
    /\ logDebug(ev, TRUE)
    /\ IF debugEnabled
       THEN \E newcap \in GrowCaps(s1.len) :
              LET r == GoAppend(arrays, s1, ev, newcap) IN
              /\ Len(r.arrays) <= MaxArrays
              /\ arrays' = r.arrays
              /\ logSlice' = r.slice
       ELSE UNCHANGED <<arrays, logSlice>>
    /\ UNCHANGED <<got, gotVal, debugEnabled, emit, cfgVars, tblVars, regVars,
                   regOp, hist, calls, moreVars>>

\* ClearDebugLog on the slice: mm.debugLog = mm.debugLog[:0] keeps the array
ClearSlice ==
    /\ ClearDebugLog
    /\ logSlice' = [logSlice EXCEPT !.len = 0]
    /\ UNCHANGED <<arrays, got, gotVal, regOp, hist, calls, moreVars>>

\* a GetDebugLog that returns mm.debugLog itself
GetDebugLog_Alias ==
    /\ got' = logSlice
    /\ gotVal' = View(arrays, logSlice)
    /\ UNCHANGED <<arrays, logSlice, cfgVars, tblVars, regVars, dbgVars, emitVars,
                   regOp, hist, calls, moreVars>>

\* GetDebugLog: log := make([]DebugEvent, len(mm.debugLog));
\* copy(log, mm.debugLog); return log
GetDebugLog ==
    /\ Len(arrays) < MaxArrays
    /\ arrays' = Append(arrays, View(arrays, logSlice))
    /\ got' = [arr |-> Len(arrays) + 1, off |-> 0, len |-> logSlice.len]
    /\ gotVal' = View(arrays, logSlice)
    /\ UNCHANGED <<logSlice, cfgVars, tblVars, regVars, dbgVars, emitVars,
                   regOp, hist, calls, moreVars>>

\* what the caller writes into the list it was handed
Junk == DebugEvent("junk", "junk", "junk", "junk", "junk")

\* the caller overwrites element i of the returned list
CallerOverwrite(i) ==
    /\ got.arr # 0
    /\ i \in 1..got.len
    /\ arrays' = [arrays EXCEPT ![got.arr][got.off + i] = Junk]
    /\ gotVal' = [gotVal EXCEPT ![i] = Junk]
    /\ UNCHANGED <<got, logSlice, cfgVars, tblVars, regVars, dbgVars, emitVars,
                   regOp, hist, calls, moreVars>>

\* the caller truncates the returned list: log = log[:k]
CallerTruncate(k) ==
    /\ got.arr # 0
    /\ k \in 0..(got.len - 1)
    /\ got' = [got EXCEPT !.len = k]
    /\ gotVal' = SubSeq(gotVal, 1, k)
    /\ UNCHANGED <<arrays, logSlice, cfgVars, tblVars, regVars, dbgVars, emitVars,
                   regOp, hist, calls, moreVars>>

\* the caller appends to the returned list: log = append(log, junk)
CallerAppend ==
    /\ got.arr # 0
    /\ got.len <= DebugLogCap
    /\ \E newcap \in GrowCaps(got.len) :
         LET r == GoAppend(arrays, got, Junk, newcap) IN
         /\ Len(r.arrays) <= MaxArrays
         /\ arrays' = r.arrays
         /\ got' = r.slice
    /\ gotVal' = Append(gotVal, Junk)
    /\ UNCHANGED <<logSlice, cfgVars, tblVars, regVars, dbgVars, emitVars,
                   regOp, hist, calls, moreVars>>

NextLog ==
    \/ LogDebugSlice
    \/ ClearSlice
    \/ GetDebugLog
    \/ \E i \in 1..DebugLogCap : CallerOverwrite(i)
    \/ \E k \in 0..DebugLogCap : CallerTruncate(k)
    \/ CallerAppend
    \/ EnableDebug /\ UNCHANGED <<regOp, hist, auxVars>>

SpecLog == Init /\ [][NextLog]_vars

\* C16: GetDebugLog returns a copy.  Whatever the caller does to the returned
\* list (overwriting, truncating, appending), the ring still holds what the
\* operations of the ring put into it; and whatever happens to the ring later
\* (appends, evictions, ClearDebugLog), the returned list still holds what the
\* caller was handed and wrote into it.
C16_GetDebugLogCopies ==
    /\ View(arrays, logSlice) = debugLog
    /\ View(arrays, got) = gotVal

\* C16 witness: the caller was handed the events "1" and "2" and overwrote the
\* first; the ring was then cleared and took event "3" in the array it had
\* before; the caller still holds junk and "2", the ring holds "3"
C16_Witness ==
    /\ got.len = 2 /\ gotVal[1] = Junk /\ gotVal[2].id = "2"
    /\ Len(debugLog) = 1 /\ debugLog[1].id = "3"
    /\ logSlice.arr # got.arr
    /\ arrays[logSlice.arr][logSlice.off + 1].id = "3"

(***************************************************************************)
(* Further claims about the debug ring (SpecRing).                         *)
(***************************************************************************)
\* C17: ClearDebugLog leaves the ring empty and the rows already written to
\* learning_patterns as they are (no step ever removes one); the events
\* appended after the clear are retained as usual, the most recent ones up to
\* the capacity.
C17_ClearKeepsPersisted ==
    /\ [][(hist # <<>> /\ hist' = <<>>) =>
            (debugLog' = <<>> /\ persisted' = persisted)]_vars
    /\ [][persisted \subseteq persisted']_vars
    /\ [](/\ Len(debugLog) = Min(Len(hist), DebugLogCap)
          /\ \A i \in 1..Len(debugLog) :
               debugLog[i] = hist[Len(hist) - Len(debugLog) + i])

\* C17 witness: event "1" was written to the ring and to learning_patterns,
\* the ring was cleared, and event "2", appended after the clear, is the one
\* event of the ring; the row of "1" is still in the store
C17_Witness ==
    /\ "1" \in persisted
    /\ Len(debugLog) = 1 /\ debugLog[1].id = "2"
    /\ hist = debugLog

(***************************************************************************)
(* SpecSeed: the config table under SetConfig, direct updates and a re-run *)
(* of initSchema (NewEngine opening a store that already holds rows).      *)
(***************************************************************************)
\* the keys seeded by initSchema that the model carries
SeededKeys == {k \in Keys : SeedConfig[k].present}

\* INSERT OR REPLACE of a seed row: the row is replaced by the seed
InsertOrIgnore_Replace(row, seed) == seed

\* INSERT OR IGNORE of a seed row: a key that has a row keeps it, no update
\* happens and the trigger does not fire
InsertOrIgnore(row, seed) == IF row.present THEN row ELSE seed

\* initSchema run again: CREATE ... IF NOT EXISTS change nothing, the seed
\* statements are applied to the rows there are
initSchema ==
    /\ config' = [k \in Keys |->
                    IF k \in SeededKeys
                    THEN InsertOrIgnore(config[k], SeedConfig[k])
                    ELSE config[k]]
    /\ lastOp' = [lastOp EXCEPT !.name = "initSchema"]
    /\ UNCHANGED <<configVersion, reloadCh, pendingCb, lastSet, tickBroadcasts,
                   setsSinceTick, tickWrites>>
    /\ UNCHANGED <<tblVars, regVars, dbgVars, emitVars, regOp, hist, auxVars>>

NextSeed ==
    \/ UNCHANGED auxVars /\ \E k \in Keys, v \in Values : SetConfig(k, v)
    \/ UNCHANGED auxVars /\ \E k \in Keys, v \in Values : DirectUpdate(k, v)
    \/ initSchema

SpecSeed == Init /\ [][NextSeed]_vars

\* C18: a re-run of initSchema on a store that holds config rows leaves every
\* row as it is: no key is added a second time, no value changes (also not
\* that of a seeded key changed by SetConfig) and no version changes.
C18_SeedIdempotent ==
    [][lastOp'.name = "initSchema" =>
         /\ config' = config
         /\ \A k \in Keys : GetConfig(k)' = GetConfig(k)]_vars

\* C18 witness: the seeded key default_provider was changed by SetConfig to
\* "v1" (version 3) and initSchema has run again: value and version are kept
C18_Witness ==
    /\ lastOp.name = "initSchema"
    /\ lastSet["default_provider"] = "v1"
    /\ config["default_provider"].value = "v1"
    /\ config["default_provider"].version = 3
    /\ config["k"].present

(***************************************************************************)
(* SpecTyped: the typed accessors GetConfigBool and GetConfigInt over the  *)
(* texts SetConfig stores.                                                 *)
(***************************************************************************)
\* texts handed to SetConfig
Texts == {"true", "1", "TRUE", "false", "0", "42", "-7", "+5", "abc", "42abc",
          "12.5", " 42", "4 2", "-"}

\* the characters of the texts a config row can hold ("" stands for the value
\* GetConfig returns for a missing key)
TextChars ==
    [t \in Texts \cup {"", "cerebras"} |->
        CASE t = "true"     -> <<"t", "r", "u", "e">>
          [] t = "1"        -> <<"1">>
          [] t = "TRUE"     -> <<"T", "R", "U", "E">>
          [] t = "false"    -> <<"f", "a", "l", "s", "e">>
          [] t = "0"        -> <<"0">>
          [] t = "42"       -> <<"4", "2">>
          [] t = "-7"       -> <<"-", "7">>
          [] t = "+5"       -> <<"+", "5">>
          [] t = "abc"      -> <<"a", "b", "c">>
          [] t = "42abc"    -> <<"4", "2", "a", "b", "c">>
          [] t = "12.5"     -> <<"1", "2", ".", "5">>
          [] t = " 42"      -> <<" ", "4", "2">>
          [] t = "4 2"      -> <<"4", " ", "2">>
          [] t = "-"        -> <<"-">>
          [] t = ""         -> <<>>
          [] t = "cerebras" -> <<"c", "e", "r", "e", "b", "r", "a", "s">>]

DecimalDigits == {"0", "1", "2", "3", "4", "5", "6", "7", "8", "9"}
DigitValue(c) ==
    CASE c = "0" -> 0 [] c = "1" -> 1 [] c = "2" -> 2 [] c = "3" -> 3
      [] c = "4" -> 4 [] c = "5" -> 5 [] c = "6" -> 6 [] c = "7" -> 7
      [] c = "8" -> 8 [] c = "9" -> 9

\* the value of a sequence of decimal digits
RECURSIVE DecimalValue(_)
DecimalValue(ds) ==
    IF ds = <<>> THEN 0
    ELSE 10 * DecimalValue(SubSeq(ds, 1, Len(ds) - 1)) + DigitValue(ds[Len(ds)])

\* the scanner's SkipSpace: leading blanks are passed over
RECURSIVE SkipSpace(_)
SkipSpace(s) ==
    IF s # <<>> /\ Head(s) \in {" ", "\t"} THEN SkipSpace(Tail(s)) ELSE s

\* the scanner's scanNumber: the longest run of digits at the front of s
RECURSIVE ScanNumber(_)
ScanNumber(s) ==
    IF s # <<>> /\ Head(s) \in DecimalDigits
    THEN <<Head(s)>> \o ScanNumber(Tail(s))
    ELSE <<>>

\* fmt.Sscanf(val, "%d", &i): blanks are skipped, one sign is accepted, the
\* digits that follow are converted; what comes after them is left unread.
\* Without a digit the scan fails and i is not assigned.
Sscanf(s) ==
    LET s1 == SkipSpace(s)
        signed == s1 # <<>> /\ Head(s1) \in {"+", "-"}
        s2 == IF signed THEN Tail(s1) ELSE s1
        tok == ScanNumber(s2) IN
    IF tok = <<>>
    THEN [ok |-> FALSE, i |-> 0]
    ELSE [ok |-> TRUE,
          i |-> IF signed /\ Head(s1) = "-"
                THEN 0 - DecimalValue(tok) ELSE DecimalValue(tok)]

\* GetConfigBool: val, _ := e.GetConfig(key); return val == "true" || val == "1"
GetConfigBool(k) == GetConfig(k) = "true" \/ GetConfig(k) = "1"

\* GetConfigInt: val, _ := e.GetConfig(key); var i int;
\* fmt.Sscanf(val, "%d", &i); return i
GetConfigInt(k) ==
    LET r == Sscanf(TextChars[GetConfig(k)]) IN
    IF r.ok THEN r.i ELSE 0

NextTyped ==
    UNCHANGED auxVars /\ \E k \in Keys, v \in Texts : SetConfig(k, v)

SpecTyped == Init /\ [][NextTyped]_vars

\* integer text: an optional sign followed by decimal digits and nothing else
IsIntegerText(s) ==
    LET ds == IF s # <<>> /\ Head(s) \in {"+", "-"} THEN Tail(s) ELSE s IN
    /\ ds # <<>>
    /\ \A i \in 1..Len(ds) : ds[i] \in DecimalDigits
IntegerOf(s) ==
    IF Head(s) = "-" THEN 0 - DecimalValue(Tail(s))
    ELSE IF Head(s) = "+" THEN DecimalValue(Tail(s))
    ELSE DecimalValue(s)

\* C19: for every key, GetConfigBool is true exactly when the stored text is
\* "true" or "1" (false for any other text and for a missing key), and
\* GetConfigInt is the integer for integer text and 0 for any other text and
\* for a missing key.
C19_TypedAccessors ==
    \A k \in Keys :
        LET s == TextChars[GetConfig(k)] IN
        /\ GetConfigBool(k) <=> (config[k].present /\ config[k].value \in {"true", "1"})
        /\ GetConfigInt(k) = IF config[k].present /\ IsIntegerText(s)
                             THEN IntegerOf(s) ELSE 0

(***************************************************************************)
(* SpecOrder: repeated Emit calls of one event over hooks of equal         *)
(* priority; every call that finds hooks is recorded in calls with the     *)
(* registry list it looked up and, once it has returned, the hooks it      *)
(* invoked.                                                                *)
(***************************************************************************)
\* two hooks of equal priority on "x", and the first of them re-registered
\* with another priority
OrderHooks ==
    { Hk("ha", "m1", "x", "log", 5, TRUE),
      Hk("hb", "m1", "x", "debug", 5, TRUE),
      Hk("ha", "m1", "x", "log", 9, TRUE) }

\* the call enters calls when its lookup finds hooks
NoteCall(p, e) ==
    calls' = IF Len(mmHooks[e]) > 0
             THEN Append(calls, [event |-> e, snapshot |-> mmHooks[e],
                                 trace |-> <<>>, done |-> FALSE])
             ELSE calls

\* the hooks it invoked are noted when the call returns
NoteReturn(p) ==
    calls' = IF emit'[p].pc = "returned"
             THEN [calls EXCEPT ![Len(calls)].trace = emit'[p].trace,
                                ![Len(calls)].done = TRUE]
             ELSE calls

QuietOrder == ~Crashed /\ UNCHANGED <<regOp, hist, sliceVars, moreVars>>

NextOrder ==
    \/ QuietOrder /\ RegisterModule(Mod("m1", TRUE, 50, ""), "done", "ok")
                  /\ UNCHANGED calls
    \/ QuietOrder /\ UNCHANGED calls
                  /\ \E h \in OrderHooks : RegisterHook(h, "done", "ok")
    \/ QuietOrder /\ EnableDebug /\ UNCHANGED calls
    \/ QuietOrder /\ \E p \in Procs : EmitCall(p, "x") /\ NoteCall(p, "x")
    \/ QuietOrder /\ \E p \in Procs : EmitHook(p) /\ NoteReturn(p)
    \/ QuietOrder /\ \E p \in Procs, res \in HandlerOutcomes :
                       EmitHandlerReturn(p, res, TRUE) /\ NoteReturn(p)

SpecOrder == Init /\ [][NextOrder]_vars

MaxPatterns == 4

\* inputs handed to Parse
ParseInputs ==
    { Str("/help"), Str("/history"), Str("/diff"), Str("/status"), Str("/config"),
      Str("/exit"), Str("/quit"), Str("/undo"), Str("/redo"), Str("/debug"),
      Str("/provider cerebras"), Str("/model"), Str("/switch openai"),
      Str("/frob"), Str("/"), Str("/HELP"), Str("/help undo"), Str("  /undo "),
      Str("/ help"), Str("//help"), Str("/helpme"),
      Str(""), Str("   "), Str("undo"), Str("Undo it"), Str("please help"),
      Str("hello"), Str("use openai") }

\* the switch of parseCommand
CommandType(command) ==
    CASE command = Str("help") -> IntentType.Help
      [] command = Str("history") -> IntentType.History
      [] command = Str("diff") -> IntentType.Diff
      [] command = Str("status") -> IntentType.Status
      [] command = Str("config") -> IntentType.Config
      [] command \in {Str("exit"), Str("quit")} -> IntentType.Exit
      [] command = Str("undo") -> IntentType.Undo
      [] command = Str("redo") -> IntentType.Redo
      [] command = Str("debug") -> IntentType.Debug
      [] command \in {Str("provider"), Str("model"), Str("switch")} -> IntentType.Switch
      [] OTHER -> IntentType.Command

\* parseCommand(input)
parseCommand(input) ==
    LET parts == Fields(input) IN
    IF Len(parts) = 0 THEN NilIntent
    ELSE LET command == TrimPrefix(parts[1], Str("/"))
             args == Tail(parts) IN
         MkIntent(CommandType(command), <<>>, <<>>, <<>>,
                  IF CommandType(command) = IntentType.Switch /\ Len(args) > 0
                  THEN args[1] ELSE <<>>,
                  command, args, 10, input)

\* extractProvider: the providers map is ranged over in no fixed order, the
\* first provider with a pattern in the input is returned (map abridged)
ProviderPatterns ==
    [p \in {"cerebras", "openai"} |->
        IF p = "cerebras" THEN {Str("cerebras")} ELSE {Str("openai"), Str("gpt")}]
extractProvider(input) ==
    LET found == {p \in DOMAIN ProviderPatterns :
                    \E pat \in ProviderPatterns[p] : Contains(ToLower(input), pat)} IN
    IF found = {} THEN {<<>>} ELSE {Str(p) : p \in found}

\* detectAction: ip.actionPatterns is ranged over in no fixed order (lists
\* abridged); "modify" when nothing is found
ActionPatterns ==
    [a \in {"create", "modify", "delete"} |->
        CASE a = "create" -> {Str("add")}
          [] a = "modify" -> {Str("fix")}
          [] a = "delete" -> {Str("remove")}]
detectAction(input) ==
    LET found == {a \in DOMAIN ActionPatterns :
                    \E pat \in ActionPatterns[a] : Contains(ToLower(input), pat)} IN
    IF found = {} THEN {"modify"} ELSE found

\* extractFiles: no input of the model holds a file name, a quoted name or
\* one of the words dans, in, fichier, file, so no file pattern matches
extractFiles(input) == <<>>

\* the intent types with a pattern contained in the input, letter case aside
MatchingTypes(pats, input) ==
    {t \in DOMAIN pats :
        \E i \in 1..Len(pats[t]) : Contains(ToLower(input), ToLower(pats[t][i]))}

\* step 2 to 5 of Parse: ip.patterns is ranged over in no fixed order and the
\* first type with a matching pattern is returned; without a match the files
\* and the action are detected and the intent is a code intent
parseText(pats, input) ==
    IF MatchingTypes(pats, input) # {}
    THEN UNION {{MkIntent(t, <<>>, <<>>, input, prov, <<>>, <<>>, 8, input) :
                    prov \in IF t = IntentType.Switch
                             THEN extractProvider(input) ELSE {<<>>}} :
                t \in MatchingTypes(pats, input)}
    ELSE {MkIntent(IntentType.Code, extractFiles(input), Str(a), input, <<>>, <<>>,
                   <<>>, 6, input) : a \in detectAction(input)}

\* a Parse that tries the text patterns before it looks for the slash
Parse_PatternsFirst(raw) ==
    LET input == TrimSpace(raw) IN
    /\ intent' \in
         IF input = <<>> THEN {NilIntent}
         ELSE IF MatchingTypes(patterns, input) # {}
              THEN parseText(patterns, input)
              ELSE IF HasPrefix(input, Str("/")) THEN {parseCommand(input)}
                   ELSE parseText(patterns, input)
    /\ UNCHANGED <<patterns, cfgVars, tblVars, regVars, dbgVars, emitVars,
                   regOp, hist, sliceVars, calls, lastReload, lockVars, engVars, runVars>>

\* Parse(input): trimmed; nil for the empty input; parseCommand for an input
\* that begins with a slash; otherwise the text patterns
Parse(raw) ==
    LET input == TrimSpace(raw) IN
    /\ intent' \in
         IF input = <<>> THEN {NilIntent}
         ELSE IF HasPrefix(input, Str("/")) THEN {parseCommand(input)}
              ELSE parseText(patterns, input)
    /\ UNCHANGED <<patterns, cfgVars, tblVars, regVars, dbgVars, emitVars,
                   regOp, hist, sliceVars, calls, lastReload, lockVars, engVars, runVars>>

\* IntentParser.Reload: loadPatterns against the store content tbl
ReloadPatterns(err, tbl) ==
    /\ \A t \in DOMAIN loadPatterns(patterns, err, tbl) :
         Len(loadPatterns(patterns, err, tbl)[t]) <= MaxPatterns
    /\ patterns' = loadPatterns(patterns, err, tbl)
    /\ UNCHANGED <<intent, cfgVars, tblVars, regVars, dbgVars, emitVars,
                   regOp, hist, sliceVars, calls, lastReload, lockVars, engVars, runVars>>

NextParse ==
    \/ \E raw \in ParseInputs : Parse(raw)
    \/ \E err \in BOOLEAN, tbl \in IntentStores : ReloadPatterns(err, tbl)

SpecParse == Init /\ [][NextParse]_vars

\* C21: for every input that begins with "/" (surrounding blanks aside),
\* Parse returns an intent classified by the first word alone through the
\* command table, the generic command intent for any other first word, with
\* Command the first word without its slash, whatever text patterns are
\* loaded: the result is the same under every pattern table.
C21_SlashCommands ==
    (~intent.isNil /\ HasPrefix(intent.Raw, Str("/"))) =>
        LET word == FirstWord(intent.Raw)
            SlashTable ==
            { <<Str("/help"), IntentType.Help>>, <<Str("/history"), IntentType.History>>,
              <<Str("/diff"), IntentType.Diff>>, <<Str("/status"), IntentType.Status>>,
              <<Str("/config"), IntentType.Config>>, <<Str("/exit"), IntentType.Exit>>,
              <<Str("/quit"), IntentType.Exit>>, <<Str("/undo"), IntentType.Undo>>,
              <<Str("/redo"), IntentType.Redo>>, <<Str("/debug"), IntentType.Debug>>,
              <<Str("/provider"), IntentType.Switch>>, <<Str("/model"), IntentType.Switch>>,
              <<Str("/switch"), IntentType.Switch>> } IN
        /\ \A e \in SlashTable : word = e[1] => intent.Type = e[2]
        /\ (\A e \in SlashTable : word # e[1]) => intent.Type = IntentType.Command
        /\ <<"/">> \o intent.Command = word
        /\ intent.Confidence = 10
        /\ intent.Content = <<>>

\* C21 witness: "/help undo" was parsed while the loaded patterns map the
\* text "help" to the undo intent and "/" to feedback: the intent is a help
\* intent with Command "help"
C21_Witness ==
    /\ IntentType.Feedback \in DOMAIN patterns
    /\ Str("/") \in {patterns[IntentType.Feedback][i] :
                        i \in 1..Len(patterns[IntentType.Feedback])}
    /\ IntentType.Undo \in DOMAIN patterns /\ patterns[IntentType.Undo][Len(patterns[IntentType.Undo])] = Str("help")
    /\ intent.Raw = Str("/help undo")
    /\ intent.Type = IntentType.Help /\ intent.Command = Str("help")
    /\ intent.Args = <<Str("undo")>>

(***************************************************************************)
(* SpecStore: the tables modules and module_hooks written directly through *)
(* the store (Engine.Exec, Engine.DB), and mm.reload run against them.     *)
(***************************************************************************)
\* hook rows written directly: h1 and h2 as RegisterHook gets them, h1
\* disabled, h1 on another event, h2 with the priority of h1
StoreHooks ==
    { Hk("h1", "m1", "x", "log", 10, TRUE),
      Hk("h2", "m1", "x", "debug", 5, TRUE),
      Hk("h1", "m1", "x", "log", 10, FALSE),
      Hk("h1", "m1", "y", "log", 10, TRUE),
      Hk("h2", "m1", "x", "debug", 10, TRUE) }

\* one statement run against the store: an upsert of a module row, an upsert
\* of a hook row (foreign key checked), or DELETE FROM modules WHERE
\* module_id = ?, which deletes the hook rows of the module (ON DELETE CASCADE)
StoreWrite ==
    /\ \/ \E m \in ModuleInputs :
            /\ Len(UpsertModule(modulesTbl, m)) <= MaxRows
            /\ modulesTbl' = UpsertModule(modulesTbl, m)
            /\ UNCHANGED hooksTbl
       \/ \E h \in StoreHooks :
            /\ ForeignKeyOk(h)
            /\ Len(UpsertHook(hooksTbl, h)) <= MaxRows
            /\ hooksTbl' = UpsertHook(hooksTbl, h)
            /\ UNCHANGED modulesTbl
       \/ \E id \in {m.id : m \in ModuleInputs} :
            /\ HasRow(modulesTbl, id)
            /\ modulesTbl' = SelectSeq(modulesTbl, LAMBDA r : r.id # id)
            /\ hooksTbl' = SelectSeq(hooksTbl, LAMBDA r : r.module # id)
    /\ UNCHANGED <<regVars, cfgVars, dbgVars, emitVars, regOp, hist, sliceVars,
                   calls, parseVars, lastReload, lockVars, engVars, runVars>>

\* mm.reload() returns, having ended as out
Reload(out) ==
    /\ reload(out, modulesTbl, hooksTbl)
    /\ lastReload' = [out |-> out, flip |-> ~lastReload.flip]
    /\ UNCHANGED <<tblVars, cfgVars, dbgVars, emitVars, regOp, hist, sliceVars,
                   calls, parseVars, lockVars, engVars, runVars>>

NextStore ==
    \/ StoreWrite
    \/ \E out \in ReloadOutcomes : Reload(out)

SpecStore == Init /\ [][NextStore]_vars

C23_ReloadAtomicOnFailure ==
    [][(lastReload'.flip # lastReload.flip /\ lastReload'.out # "ok") =>
         \/ /\ mmModules' = mmModules
            /\ mmHooks' = mmHooks
         \/ /\ mmModules' = LoadModules(QueryEnabled(modulesTbl))
            /\ mmHooks' = LoadHooks(QueryEnabled(hooksTbl))]_vars

(***************************************************************************)
(* SpecLock: mm.mu.  reload runs in steps under the write lock, the lookup *)
(* of Emit under the read lock; two goroutines call Emit, two call reload, *)
(* and the store is written between the calls (module m1 and its hook h1   *)
(* are inserted and deleted).  The calls of Emit run with tracing on, and  *)
(* the history of reload is not recorded.                                  *)
(***************************************************************************)
\* a goroutine calls reload() and reaches mm.mu.Lock()
ReloadCall(r) ==
    /\ rl[r] = "idle"
    /\ rl' = [rl EXCEPT ![r] = "waiting"]
    /\ UNCHANGED <<mu, lastReload, tblVars, regVars>>

\* a Lock that does not wait for the readers to leave
ReloadLock_IgnoreReaders(r) ==
    /\ rl[r] = "waiting"
    /\ mu.writer = None
    /\ mu' = [mu EXCEPT !.writer = r]
    /\ rl' = [rl EXCEPT ![r] = "cleared"]
    /\ mmModules' = NoModules
    /\ mmHooks' = NoHooks
    /\ UNCHANGED <<lastReload, tblVars>>

\* mm.mu.Lock() is granted when nobody holds the lock; the two maps are then
\* replaced by empty ones
ReloadLock(r) ==
    /\ rl[r] = "waiting"
    /\ mu.writer = None /\ mu.readers = {}
    /\ mu' = [mu EXCEPT !.writer = r]
    /\ rl' = [rl EXCEPT ![r] = "cleared"]
    /\ mmModules' = NoModules
    /\ mmHooks' = NoHooks
    /\ UNCHANGED <<lastReload, tblVars>>

\* the modules query and its load loop; on an error reload returns and the
\* deferred Unlock runs
ReloadModules(r, err) ==
    /\ rl[r] = "cleared"
    /\ IF err
       THEN /\ rl' = [rl EXCEPT ![r] = "idle"]
            /\ mu' = [mu EXCEPT !.writer = None]
            /\ UNCHANGED mmModules
       ELSE /\ rl' = [rl EXCEPT ![r] = "modules"]
            /\ mmModules' = LoadModules(QueryEnabled(modulesTbl))
            /\ UNCHANGED mu
    /\ UNCHANGED <<mmHooks, lastReload, tblVars>>

\* the hooks query and its load loop; reload returns and the deferred Unlock
\* runs
ReloadHooks(r, err) ==
    /\ rl[r] = "modules"
    /\ rl' = [rl EXCEPT ![r] = "idle"]
    /\ mu' = [mu EXCEPT !.writer = None]
    /\ mmHooks' = IF err THEN mmHooks ELSE LoadHooks(QueryEnabled(hooksTbl))
    /\ UNCHANGED <<mmModules, lastReload, tblVars>>

\* Emit reaches mm.mu.RLock(): granted when no goroutine holds the write lock
\* and none is blocked in Lock
EmitRLock(p) ==
    /\ emit[p].pc \in {"idle", "returned"}
    /\ p \notin mu.readers
    /\ mu.writer = None
    /\ \A r \in Reloaders : rl[r] # "waiting"
    /\ mu' = [mu EXCEPT !.readers = @ \cup {p}]
    /\ UNCHANGED <<rl, lastReload, tblVars, regVars, emitVars, dbgVars>>

\* an Emit that keeps the read lock until it returns and never gives it back
EmitLookup_KeepLock(p, e) ==
    /\ p \in mu.readers
    /\ EmitCall(p, e)
    /\ UNCHANGED <<mu, rl, lastReload>>

\* hooks := mm.hooks[event]; mm.mu.RUnlock(); then the rest of Emit up to the
\* loop
EmitLookup(p, e) ==
    /\ p \in mu.readers
    /\ mu' = [mu EXCEPT !.readers = @ \ {p}]
    /\ EmitCall(p, e)
    /\ UNCHANGED <<rl, lastReload>>

\* the steps of SpecLock outside reload and the lookup
LockQuiet == UNCHANGED <<regOp, hist, sliceVars, calls, parseVars, engVars, runVars>>

NextLock ==
    \/ /\ StoreWrite
       /\ \A i \in 1..Len(modulesTbl') : modulesTbl'[i] = Mod("m1", TRUE, 50, "")
       /\ \A i \in 1..Len(hooksTbl') :
             hooksTbl'[i] = Hk("h1", "m1", "x", "log", 10, TRUE)
    \/ LockQuiet /\ EnableDebug /\ UNCHANGED <<lastReload, lockVars>>
    \/ LockQuiet /\ UNCHANGED <<cfgVars, dbgVars, emitVars>>
                 /\ \E r \in Reloaders : ReloadCall(r)
    \/ LockQuiet /\ UNCHANGED <<cfgVars, dbgVars, emitVars>>
                 /\ \E r \in Reloaders : ReloadLock(r)
    \/ LockQuiet /\ UNCHANGED <<cfgVars, dbgVars, emitVars>>
                 /\ \E r \in Reloaders, err \in BOOLEAN : ReloadModules(r, err)
    \/ LockQuiet /\ UNCHANGED <<cfgVars, dbgVars, emitVars>>
                 /\ \E r \in Reloaders, err \in BOOLEAN : ReloadHooks(r, err)
    \/ LockQuiet /\ UNCHANGED cfgVars
                 /\ debugEnabled
                 /\ uuidCtr + 1 + MaxRows <= MaxUuid
                 /\ \E p \in AllProcs : EmitRLock(p)
    \/ LockQuiet /\ \E p \in AllProcs, e \in {"x"} : EmitLookup(p, e)
    \/ LockQuiet /\ UNCHANGED <<lastReload, lockVars>>
                 /\ \E p \in AllProcs : EmitHook(p)
    \/ LockQuiet /\ UNCHANGED <<lastReload, lockVars>>
                 /\ \E p \in AllProcs : EmitHandlerReturn(p, "nil", TRUE)

SpecLock == Init /\ [][NextLock]_vars

\* C24: a reload's discard-and-rebuild never overlaps a lookup of Emit nor
\* another reload; a lookup reads the index only while no reload is between
\* its Lock and its Unlock, so what a call captures is never an index that a
\* running reload has emptied or half rebuilt; lookups may overlap each other.
C24_LockDiscipline ==
    /\ [](LET InReload == {r \in Reloaders : rl[r] \in {"cleared", "modules"}} IN
          /\ Cardinality(InReload) <= 1
          /\ InReload # {} => mu.readers = {}
          /\ \A r \in Reloaders : r \in InReload <=> mu.writer = r)
    /\ [][\A p \in AllProcs :
            (p \in mu.readers /\ p \notin mu'.readers) =>
                /\ \A r \in Reloaders : rl[r] \notin {"cleared", "modules"}
                /\ emit'[p].hooks = mmHooks[emit'[p].event]
                /\ mmHooks' = mmHooks]_vars

\* C24 witness: both Emit goroutines hold the read lock at once while a
\* reload is blocked in Lock, the registry holding a hook
C24_Witness ==
    /\ mu.readers = AllProcs
    /\ \E r \in Reloaders : rl[r] = "waiting"
    /\ Len(mmHooks["x"]) > 0

\* SpecLock with scheduling: every goroutine that can take a step takes one,
\* the locks are granted fairly (a blocked Lock keeps new readers out, the
\* mutex hands the lock to a waiter that keeps waiting), and a handler called
\* by e2 returns; nothing is assumed about a handler called by e1, which may
\* never return
SpecLockLive ==
    /\ SpecLock
    /\ \A r \in Reloaders :
         /\ SF_vars(LockQuiet /\ UNCHANGED <<cfgVars, dbgVars, emitVars>>
                              /\ ReloadLock(r))
         /\ WF_vars(LockQuiet /\ UNCHANGED <<cfgVars, dbgVars, emitVars>>
                              /\ \E err \in BOOLEAN : ReloadModules(r, err))
         /\ WF_vars(LockQuiet /\ UNCHANGED <<cfgVars, dbgVars, emitVars>>
                              /\ \E err \in BOOLEAN : ReloadHooks(r, err))
    /\ \A p \in AllProcs :
         /\ WF_vars(LockQuiet /\ EmitLookup(p, "x"))
         /\ WF_vars(LockQuiet /\ UNCHANGED <<lastReload, lockVars>> /\ EmitHook(p))
    /\ WF_vars(LockQuiet /\ UNCHANGED <<lastReload, lockVars>>
                         /\ EmitHandlerReturn("e2", "nil", TRUE))

\* C25: Emit holds no registry lock while a handler runs: a call that is in
\* its loop or in a handler does not hold the read lock.  So while a handler
\* called by e1 never returns, every reload blocked in Lock still gets the
\* lock and returns, and every Emit call of e2 still finishes its lookup, its
\* hooks and returns.
C25_NoLockInHandler ==
    /\ [](\A p \in AllProcs :
            emit[p].pc \in {"loop", "handler"} => p \notin mu.readers)
    /\ \A r \in Reloaders : (rl[r] = "waiting") ~> (rl[r] = "idle")
    /\ (emit["e1"].pc = "handler" /\ "e2" \in mu.readers)
          ~> (emit["e2"].pc = "returned")

\* C25 witness: e1 is in the handler of h1; since its lookup the module was
\* deleted from the store and a reload has emptied the index, and e2 has made
\* a call that found no hook and returned
C25_Witness ==
    /\ emit["e1"].pc = "handler" /\ Len(emit["e1"].hooks) = 1
    /\ mmHooks["x"] = <<>> /\ modulesTbl = <<>>
    /\ \A r \in Reloaders : rl[r] = "idle"
    /\ emit["e2"].pc = "returned" /\ emit["e2"].event = "x"
    /\ emit["e2"].hooks = <<>>
    /\ mu.readers = {}

(***************************************************************************)
(* SpecNotify: the watchConfig loop, pass by pass, with the config writes, *)
(* the watcher goroutines and a consumer of the reload signal.             *)
(***************************************************************************)
\* case <-ticker.C of the watchConfig loop: one pass; every read of a closed
\* store fails
TickerCase(err) ==
    /\ eng.running
    /\ eng.closed => err
    /\ watchConfigTick(err)
    /\ lastTick' =
         LET notified == ~err /\ MaxVersion(config) > configVersion IN
         [flip |-> ~lastTick.flip, err |-> err,
          failed |-> IF err THEN Bump(lastTick.failed) ELSE 0,
          writes |-> setsSinceTick,
          notified |-> notified,
          dropped |-> notified /\ reloadCh >= 1,
          busy |-> notified /\ pendingCb > 0]
    /\ UNCHANGED <<eng, sliceVars, calls, parseVars, lastReload, lockVars,
                   runVars>>

NextNotify ==
    \/ UNCHANGED auxVars /\ SetConfig("k", "v1")
    \/ UNCHANGED auxVars /\ DirectUpdate("default_provider", "v1")
    \/ \E err \in BOOLEAN : TickerCase(err)
    \/ UNCHANGED auxVars /\ WatcherRun("ok")
    \/ UNCHANGED auxVars /\ ReceiveReload

SpecNotify == Init /\ [][NextNotify]_vars

\* a pass of the loop
IsTick == lastTick'.flip # lastTick.flip

\* C26: a pass of the notifier whose read fails broadcasts nothing, pushes no
\* signal, leaves the cached version as it is and leaves the loop running;
\* and the first pass with a successful read after failed ones notifies when
\* a config write was committed since the last successful read.
C26_ReadFailureLosesNothing ==
    /\ [][(IsTick /\ lastTick'.err) =>
            /\ configVersion' = configVersion
            /\ pendingCb' = pendingCb
            /\ reloadCh' = reloadCh
            /\ ~lastTick'.notified
            /\ eng'.running]_vars
    /\ [][(IsTick /\ ~lastTick'.err /\ lastTick.failed > 0 /\ setsSinceTick > 0) =>
            lastTick'.notified]_vars

\* C27: the reload signal is single-slot and its push does not block: never
\* more than one signal is pending, and a pass that detects a change while a
\* signal is pending leaves the one signal, still broadcasts to the watchers
\* and ends, after which the loop can make its next pass.
C27_SingleSlotSignal ==
    /\ [](reloadCh <= 1)
    /\ [][(IsTick /\ lastTick'.notified /\ reloadCh = 1) =>
            /\ reloadCh' = 1
            /\ lastTick'.dropped
            /\ pendingCb' = pendingCb + Cardinality(Watchers)
            /\ eng'.running]_vars
    /\ [](lastTick.dropped => ENABLED TickerCase(FALSE))

\* C27 witness: a pass detected a change while the signal of an earlier change
\* was still pending: one signal is pending, two watcher goroutines are started
C27_Witness ==
    /\ lastTick.dropped
    /\ reloadCh = 1
    /\ pendingCb = 2
    /\ configVersion = 3

\* C28: the watchers are invoked asynchronously: a pass that finds a higher
\* version starts one goroutine per watcher and ends, whether or not watcher
\* goroutines of earlier passes have finished, and the loop can make its next
\* pass while they are unfinished.
C28_WatchersAsync ==
    /\ [][(IsTick /\ ~lastTick'.err /\ MaxVersion(config) > configVersion) =>
            /\ lastTick'.notified
            /\ configVersion' = MaxVersion(config)
            /\ pendingCb' = pendingCb + Cardinality(Watchers)]_vars
    /\ [](pendingCb > 0 => ENABLED TickerCase(FALSE))

\* C28 witness: a pass has broadcast a further change while the watcher
\* goroutine of the change before had not run, the signal of that change
\* having been received: two watcher goroutines are unfinished
C28_Witness ==
    /\ lastTick.busy /\ ~lastTick.dropped
    /\ pendingCb = 2

\* C30: a pass broadcasts and pushes a reload signal only if a config row was
\* inserted or updated since the previous successful read, counted from the
\* start of the engine; without a config write after the start no pass
\* notifies.
C30_NoSpuriousNotification ==
    [][(IsTick /\ lastTick'.notified) => lastTick'.writes > 0]_vars


(***************************************************************************)
(* SpecClose: Engine.Close against the watchConfig goroutine, the watcher  *)
(* goroutines and an Emit call.  After e.db.Close() every statement on the *)
(* store fails.  An unrecovered panic ends the process: no goroutine takes *)
(* a step after it.                                                        *)
(***************************************************************************)
\* Engine.Close: e.cancel()
CloseCancel ==
    /\ ~eng.cancelled
    /\ eng' = [eng EXCEPT !.cancelled = TRUE]
    /\ UNCHANGED <<cfgVars, tblVars, regVars, dbgVars, emitVars, lastTick>>

\* Engine.Close: the WAL checkpoint and e.db.Close()
CloseDB ==
    /\ eng.cancelled /\ ~eng.closed
    /\ eng' = [eng EXCEPT !.closed = TRUE]
    /\ UNCHANGED <<cfgVars, tblVars, regVars, dbgVars, emitVars, lastTick>>

\* watchConfig, case <-e.ctx.Done(): return
DoneCase ==
    /\ eng.running /\ eng.cancelled
    /\ eng' = [eng EXCEPT !.running = FALSE]
    /\ UNCHANGED <<cfgVars, tblVars, regVars, dbgVars, emitVars, lastTick>>

\* the steps of SpecClose leave the histories of the other specifications alone
CloseQuiet ==
    ~Crashed /\ UNCHANGED <<regOp, hist, sliceVars, calls, parseVars,
                            lastReload, lockVars, runVars>>

NextClose ==
    \/ CloseQuiet /\ UNCHANGED engVars /\ ~eng.cancelled
                  /\ ~HasRow(modulesTbl, "m1")
                  /\ RegisterModule(Mod("m1", TRUE, 50, ""), "done", "ok")
    \/ CloseQuiet /\ UNCHANGED engVars /\ ~eng.cancelled
                  /\ \E h \in {Hk("h1", "m1", "x", "log", 10, TRUE),
                               Hk("h2", "m1", "x", "debug", 5, TRUE)} :
                        /\ h.id = "h2" => HasRow(hooksTbl, "h1")
                        /\ ~HasRow(hooksTbl, h.id)
                        /\ RegisterHook(h, "done", "ok")
    \/ CloseQuiet /\ UNCHANGED engVars /\ ~eng.cancelled /\ ~debugEnabled
                  /\ EnableDebug
    \/ CloseQuiet /\ UNCHANGED engVars /\ ~eng.closed
                  /\ lastOp.name = "none"
                  /\ DirectUpdate("default_provider", "v1")
    \/ ~Crashed /\ \E err \in BOOLEAN : TickerCase(err)
    \/ CloseQuiet /\ UNCHANGED engVars
                  /\ WatcherRun(IF eng.closed THEN "modules_err" ELSE "ok")
    \/ CloseQuiet /\ UNCHANGED engVars /\ ReceiveReload
    \/ CloseQuiet /\ CloseCancel
    \/ CloseQuiet /\ CloseDB
    \/ CloseQuiet /\ DoneCase
    \/ CloseQuiet /\ UNCHANGED engVars
                  /\ (debugEnabled =>
                        uuidCtr + 1 + Len(Lookup(mmHooks, "x")) <= MaxTraceIds)
                  /\ \E p \in Procs : EmitCall(p, "x")
    \/ CloseQuiet /\ UNCHANGED engVars /\ \E p \in Procs : EmitHook(p)
    \/ CloseQuiet /\ UNCHANGED engVars
                  /\ \E p \in Procs : EmitHandlerReturn(p, "nil", ~eng.closed)

SpecClose == Init /\ [][NextClose]_vars

\* SpecClose with scheduling: once the context is cancelled the Done case of
\* the select stays ready, and a select with several ready cases picks among
\* them at random, so the loop does not take the ticker case for ever; the
\* goroutine inside Emit keeps running and the handlers it calls return
SpecCloseLive ==
    /\ SpecClose
    /\ WF_vars(CloseQuiet /\ DoneCase)
    /\ \A p \in Procs :
         /\ WF_vars(CloseQuiet /\ UNCHANGED engVars /\ EmitHook(p))
         /\ WF_vars(CloseQuiet /\ UNCHANGED engVars
                               /\ EmitHandlerReturn(p, "nil", ~eng.closed))

\* C29: after Engine.Close has cancelled the context the notifier loop
\* eventually returns, and once it has returned no pass runs, no watcher is
\* started and no reload signal is pushed; an Emit call that is in flight
\* when the context is cancelled goes on to call every hook it has left and
\* returns.
C29_CloseStopsNotifierOnly ==
    /\ eng.cancelled ~> ~eng.running
    /\ [][~eng.running =>
            /\ ~eng'.running
            /\ ~IsTick
            /\ pendingCb' <= pendingCb
            /\ reloadCh' <= reloadCh]_vars
    /\ \A p \in Procs :
         (eng.cancelled /\ emit[p].pc \in {"loop", "handler"})
            ~> /\ emit[p].pc = "returned"
               /\ emit[p].trace =
                    SelectSeq(emit[p].hooks,
                              LAMBDA h : h.handler \in builtinHandlers)


(***************************************************************************)
(* SpecSub: the registry as a subscriber of the notifier.  The callback of *)
(* NewModuleManager runs in the goroutines notifyWatchers starts; the      *)
(* registration calls write a row and call reload; every reload runs in    *)
(* steps under mm.mu.  The store is written by the registration calls      *)
(* only, each of which inserts a row.                                      *)
(***************************************************************************)
\* the tables of the store as a query finds them
StoreNow == [modules |-> modulesTbl, hooks |-> hooksTbl]

\* a callback that reacts to module events only
CallbackReloads_ModuleOnly(event) == event = "module_changed"

\* func(event string) { if event == "config_changed" || event ==
\* "module_changed" { mm.reload() } }
CallbackReloads(event) == event \in {"config_changed", "module_changed"}

\* a pass of watchConfig; its broadcast starts one goroutine for the callback
SubTick(err) ==
    /\ watchConfigTick(err)
    /\ subs' = IF ~err /\ MaxVersion(config) > configVersion
               THEN [subs EXCEPT !.owed = Append(@, StoreNow), !.made = @ + 1]
               ELSE subs
    /\ UNCHANGED <<sliceVars, calls, parseVars, lastReload, lockVars, engVars,
                   chat>>

\* a goroutine started by notifyWatchers("config_changed") runs the callback
WatcherStart(r) ==
    /\ pendingCb > 0
    /\ rl[r] = "idle"
    /\ pendingCb' = pendingCb - 1
    /\ \E i \in 1..Len(subs.owed) :
         subs' = [subs EXCEPT
                    !.owed = SubSeq(@, 1, i - 1) \o SubSeq(@, i + 1, Len(@)),
                    !.of[r] = IF CallbackReloads("config_changed")
                              THEN [by |-> "watcher", store |-> subs.owed[i]]
                              ELSE NoTrigger]
    /\ rl' = [rl EXCEPT ![r] = IF CallbackReloads("config_changed")
                               THEN "waiting" ELSE "idle"]
    /\ UNCHANGED <<config, configVersion, reloadCh, lastSet, lastOp,
                   tickBroadcasts, setsSinceTick, tickWrites>>
    /\ UNCHANGED <<tblVars, regVars, dbgVars, emitVars, regOp, hist, sliceVars,
                   calls, parseVars, lastReload, mu, engVars, chat>>

\* RegisterModule up to its call of reload: the upsert; on an error the call
\* returns
RegisterModuleExec(r, m, res) ==
    /\ rl[r] = "idle"
    /\ Len(UpsertModule(modulesTbl, m)) <= MaxRows
    /\ modulesTbl' = IF res = "done" THEN UpsertModule(modulesTbl, m)
                     ELSE modulesTbl
    /\ rl' = [rl EXCEPT ![r] = IF res = "done" THEN "waiting" ELSE "idle"]
    /\ subs' = IF res = "done"
               THEN [subs EXCEPT !.of[r] =
                       [by |-> "register",
                        store |-> [modules |-> modulesTbl', hooks |-> hooksTbl]]]
               ELSE subs
    /\ UNCHANGED <<hooksTbl, cfgVars, regVars, dbgVars, emitVars, regOp, hist,
                   sliceVars, calls, parseVars, lastReload, mu, engVars, chat>>

\* RegisterHook up to its call of reload
RegisterHookExec(r, h, res) ==
    /\ rl[r] = "idle"
    /\ Len(UpsertHook(hooksTbl, h)) <= MaxRows
    /\ ~ForeignKeyOk(h) => res = "exec_err"
    /\ hooksTbl' = IF res = "done" THEN UpsertHook(hooksTbl, h) ELSE hooksTbl
    /\ rl' = [rl EXCEPT ![r] = IF res = "done" THEN "waiting" ELSE "idle"]
    /\ subs' = IF res = "done"
               THEN [subs EXCEPT !.of[r] =
                       [by |-> "register",
                        store |-> [modules |-> modulesTbl, hooks |-> hooksTbl']]]
               ELSE subs
    /\ UNCHANGED <<modulesTbl, cfgVars, regVars, dbgVars, emitVars, regOp, hist,
                   sliceVars, calls, parseVars, lastReload, mu, engVars, chat>>

\* reload returns: ok tells whether both queries succeeded
SubReturn(r, ok) ==
    subs' = [subs EXCEPT !.of[r] = NoTrigger,
                         !.last = [ok |-> ok, by |-> subs.of[r].by,
                                   store |-> subs.of[r].store],
                         !.back = IF subs.of[r].by = "watcher" THEN @ + 1 ELSE @]

\* the steps of SpecSub outside the store and the config table
SubQuiet ==
    UNCHANGED <<regOp, hist, sliceVars, calls, parseVars, engVars, chat,
                cfgVars, dbgVars, emitVars>>

NextSub ==
    \/ UNCHANGED auxVars /\ lastOp.name = "none"
                         /\ DirectUpdate("default_provider", "v1")
    \/ \E err \in BOOLEAN : SubTick(err)
    \/ \E r \in Reloaders : WatcherStart(r)
    \/ \E r \in Reloaders, res \in {"done", "exec_err"} :
         /\ ~HasRow(modulesTbl, "m1")
         /\ RegisterModuleExec(r, Mod("m1", TRUE, 50, ""), res)
    \/ \E r \in Reloaders, res \in {"done", "exec_err"},
          h \in {Hk("h1", "m1", "x", "log", 10, TRUE),
                 Hk("h2", "m1", "x", "debug", 5, TRUE)} :
         /\ ~HasRow(hooksTbl, h.id)
         /\ RegisterHookExec(r, h, res)
    \/ SubQuiet /\ UNCHANGED subs /\ \E r \in Reloaders : ReloadLock(r)
    \/ SubQuiet /\ \E r \in Reloaders :
         \/ ReloadModules(r, FALSE) /\ UNCHANGED subs
         \/ ReloadModules(r, TRUE) /\ SubReturn(r, FALSE)
    \/ SubQuiet /\ \E r \in Reloaders, err \in BOOLEAN :
         ReloadHooks(r, err) /\ SubReturn(r, ~err)

SpecSub == Init /\ [][NextSub]_vars

\* SpecSub with scheduling: a started goroutine runs, Lock is granted to a
\* goroutine that keeps waiting, a goroutine inside reload goes on
SpecSubLive ==
    /\ SpecSub
    /\ WF_vars(\E r \in Reloaders : WatcherStart(r))
    /\ \A r \in Reloaders :
         /\ SF_vars(SubQuiet /\ UNCHANGED subs /\ ReloadLock(r))
         /\ WF_vars(SubQuiet /\ (\/ ReloadModules(r, FALSE) /\ UNCHANGED subs
                                 \/ ReloadModules(r, TRUE) /\ SubReturn(r, FALSE)))
         /\ WF_vars(SubQuiet /\ \E err \in BOOLEAN :
                                  ReloadHooks(r, err) /\ SubReturn(r, ~err))

C32_InFlightKeepsContext ==
    [][\A p \in Procs :
         (emit[p].pc = "handler" /\ emit'[p] # emit[p]) =>
            /\ (emit[p].debugCtx # None /\ ~debugEnabled) =>
                  /\ debugLog' # debugLog
                  /\ debugLog'[Len(debugLog')].trace = emit[p].debugCtx
            /\ (emit[p].debugCtx = None /\ debugEnabled) =>
                  /\ debugLog' = debugLog
                  /\ emit'[p].pc \in {"loop", "returned"}]_vars


(***************************************************************************)
(* SpecTrace: Emit calls of two goroutines with debug mode on, the hooks    *)
(* registered before; hist keeps what each call did with its DebugContext. *)
(***************************************************************************)
TraceHooks ==
    { Hk("h1", "m1", "x", "log", 10, TRUE),
      Hk("h2", "m1", "x", "debug", 5, TRUE),
      Hk("h3", "m1", "y", "log", 7, TRUE) }

\* the steps of SpecTrace leave the other histories alone
TraceQuiet == UNCHANGED <<regOp, auxVars>>

\* Emit up to the loop, the DebugContext it creates noted
TraceCall(p, e) ==
    /\ EmitCall(p, e)
    /\ hist' = IF emit'[p].debugCtx # None
               THEN Append(hist, [kind |-> "call", p |-> p,
                                  id |-> emit'[p].debugCtx])
               ELSE hist

\* the handler lookup and call, the context handed to the handler noted
TraceHook(p) ==
    /\ EmitHook(p)
    /\ hist' = IF emit'[p].pc = "handler"
               THEN Append(hist, [kind |-> "handler", p |-> p,
                                  id |-> emit[p].debugCtx])
               ELSE hist

\* the handler returns, the event appended to the ring noted
TraceReturn(p, res, persistOk) ==
    /\ EmitHandlerReturn(p, res, persistOk)
    /\ hist' = IF debugLog' # debugLog
               THEN Append(hist, [kind |-> "event", p |-> p,
                                  id |-> debugLog'[Len(debugLog')].trace])
               ELSE hist

NextTrace ==
    \/ TraceQuiet /\ UNCHANGED hist /\ ~HasRow(modulesTbl, "m1")
                  /\ RegisterModule(Mod("m1", TRUE, 50, ""), "done", "ok")
    \/ TraceQuiet /\ UNCHANGED hist /\ ~debugEnabled
                  /\ \E h \in TraceHooks :
                        ~HasRow(hooksTbl, h.id) /\ RegisterHook(h, "done", "ok")
    \/ TraceQuiet /\ UNCHANGED hist /\ ~debugEnabled /\ EnableDebug
    \/ TraceQuiet /\ debugEnabled
                  /\ \E p \in AllProcs, e \in EmitEvents : TraceCall(p, e)
    \/ TraceQuiet /\ \E p \in AllProcs : TraceHook(p)
    \/ TraceQuiet /\ \E p \in AllProcs : TraceReturn(p, "nil", TRUE)

SpecTrace == Init /\ [][NextTrace]_vars

\* C33: every DebugEvent a call records carries the id of the DebugContext
\* the call created, which is the context handed to each of its handlers,
\* and no two calls, whether one after the other or overlapping, on the same
\* event or on different ones, have the same trace id.
C33_TraceCorrelation ==
    /\ \A i, j \in DOMAIN hist :
         (i < j /\ hist[i].kind = "call" /\ hist[j].kind = "call") =>
            hist[i].id # hist[j].id
    /\ \A j \in DOMAIN hist :
         hist[j].kind # "call" =>
            \E i \in 1..(j - 1) :
               /\ hist[i].kind = "call"
               /\ hist[i].p = hist[j].p
               /\ hist[i].id = hist[j].id
               /\ \A k \in (i + 1)..(j - 1) :
                     ~(hist[k].kind = "call" /\ hist[k].p = hist[j].p)

\* C33 witness: overlapping calls of e1 and e2 on "x", two hooks each, have
\* recorded two events each, the first event of e2 between the two of e1
C33_Witness ==
    /\ \A p \in AllProcs :
         /\ emit[p].event = "x" /\ emit[p].pc = "returned"
         /\ Cardinality({j \in DOMAIN hist :
                           hist[j].kind = "event" /\ hist[j].p = p}) = 2
    /\ \E i, j, k \in DOMAIN hist :
         /\ i < j /\ j < k
         /\ hist[i].kind = "event" /\ hist[i].p = "e1"
         /\ hist[j].kind = "event" /\ hist[j].p = "e2"
         /\ hist[k].kind = "event" /\ hist[k].p = "e1"


(***************************************************************************)
(* SpecPersist: Emit with debug mode on against a store whose INSERT into  *)
(* learning_patterns succeeds or fails; hist keeps every attempt.          *)
(***************************************************************************)
\* the handler returns and logDebug runs, the attempt to persist noted
PersistReturn(p, res, persistOk) ==
    /\ EmitHandlerReturn(p, res, persistOk)
    /\ hist' = Append(hist, [id |-> Uuid(uuidCtr + 1), ok |-> persistOk,
                             hook |-> emit[p].hooks[emit[p].idx].id])

NextPersist ==
    \/ TraceQuiet /\ UNCHANGED hist /\ ~HasRow(modulesTbl, "m1")
                  /\ RegisterModule(Mod("m1", TRUE, 50, ""), "done", "ok")
    \/ TraceQuiet /\ UNCHANGED hist /\ ~debugEnabled
                  /\ \E h \in HookInputs : RegisterHook(h, "done", "ok")
    \/ TraceQuiet /\ UNCHANGED hist /\ ~debugEnabled /\ EnableDebug
    \/ TraceQuiet /\ UNCHANGED hist /\ debugEnabled
                  /\ \E p \in Procs : EmitCall(p, "x")
    \/ TraceQuiet /\ UNCHANGED hist /\ \E p \in Procs : EmitHook(p)
    \/ TraceQuiet /\ \E p \in Procs, res \in HandlerOutcomes, persistOk \in BOOLEAN :
                        PersistReturn(p, res, persistOk)

SpecPersist == Init /\ [][NextPersist]_vars

\* C34: for every DebugEvent appended to the ring one write to the store is
\* attempted: the event is in learning_patterns exactly when that write
\* succeeded.  When the write fails the event is in the ring all the same,
\* the call goes on to its remaining hooks and returns.
C34_PersistBestEffort ==
    /\ [](\A i \in DOMAIN hist : hist[i].id \in persisted <=> hist[i].ok)
    /\ [](/\ Len(debugLog) = Min(Len(hist), DebugLogCap)
          /\ \A i \in 1..Len(debugLog) :
                debugLog[i].id = LastOf(hist, Len(debugLog))[i].id)
    /\ [][\A p \in Procs :
            (emit[p].pc = "handler" /\ emit'[p] # emit[p]) =>
               /\ debugLog'[Len(debugLog')].id = hist'[Len(hist')].id
               /\ emit'[p].idx = emit[p].idx + 1
               /\ emit'[p].pc = IF emit[p].idx < Len(emit[p].hooks)
                                THEN "loop" ELSE "returned"]_vars
    /\ [](\A p \in Procs :
            emit[p].pc = "returned" =>
               emit[p].trace = SelectSeq(emit[p].hooks,
                                         LAMBDA h : h.handler \in builtinHandlers))

\* C34 witness: a call with two hooks has returned; the write of its first
\* event failed, the write of its second succeeded, both are in the ring
C34_Witness ==
    /\ emit["e1"].pc = "returned" /\ Len(emit["e1"].trace) = 2
    /\ Len(hist) = 2 /\ ~hist[1].ok /\ hist[2].ok
    /\ Len(debugLog) = 2
    /\ persisted = {hist[2].id}


(***************************************************************************)
(* SpecInteg: registration calls, deletions of module rows and reloads;    *)
(* a hook id may be registered again under another module id.              *)
(***************************************************************************)
IntegHooks ==
    { Hk("h1", "m1", "x", "log", 10, TRUE),
      Hk("h1", "debug", "y", "log", 10, TRUE),
      Hk("h2", "debug", "x", "debug", 5, TRUE) }

\* DELETE FROM modules WHERE module_id = ? through Engine.Exec; the hook rows
\* of the module go with it (ON DELETE CASCADE, foreign_keys ON)
DeleteModule(id) ==
    /\ HasRow(modulesTbl, id)
    /\ modulesTbl' = SelectSeq(modulesTbl, LAMBDA r : r.id # id)
    /\ hooksTbl' = SelectSeq(hooksTbl, LAMBDA r : r.module # id)
    /\ UNCHANGED <<regVars, cfgVars, dbgVars, emitVars, regOp, hist, auxVars>>

NextInteg ==
    \/ \E m \in {Mod("m1", TRUE, 50, ""), Mod("debug", TRUE, 1, "")},
          res \in {"exec_err", "done"} :
         /\ RegisterModule(m, res, "ok")
         /\ Record("RegisterModule", m, res, "ok")
         /\ UNCHANGED <<hist, auxVars>>
    \/ \E h \in IntegHooks, res \in {"exec_err", "done"} :
         /\ RegisterHook(h, res, "ok")
         /\ Record("RegisterHook", h, res, "ok")
         /\ UNCHANGED <<hist, auxVars>>
    \/ \E id \in {"m1", "debug"} : DeleteModule(id)
    \/ \E out \in ReloadOutcomes : Reload(out)

SpecInteg == Init /\ [][NextInteg]_vars

UpsertHooks ==
    { Hk("h1", "m1", "x", "log", 10, TRUE),
      Hk("h1", "m1", "x", "debug", 3, TRUE),
      Hk("h1", "m1", "y", "log", 10, FALSE),
      Hk("", "m1", "x", "log", 7, TRUE) }

NextUpsert ==
    \/ /\ ~HasRow(modulesTbl, "m1")
       /\ RegisterModule(Mod("m1", TRUE, 50, ""), "done", "ok")
       /\ Record("RegisterModule", Mod("m1", TRUE, 50, ""), "done", "ok")
       /\ UNCHANGED <<hist, auxVars>>
    \/ \E h \in UpsertHooks, res \in {"exec_err", "done"} :
         /\ RegisterHook(h, res, "ok")
         /\ Record("RegisterHook", h, res, "ok")
         /\ UNCHANGED <<hist, auxVars>>
    \/ Quiet /\ ~debugEnabled /\ EnableDebug
    \/ Quiet /\ debugEnabled /\ \E e \in EmitEvents :
                  /\ uuidCtr + 1 + Len(Lookup(mmHooks, e)) <= MaxTraceIds + 1
                  /\ EmitCall("e1", e)
    \/ Quiet /\ EmitHook("e1")
    \/ Quiet /\ EmitHandlerReturn("e1", "nil", TRUE)

SpecUpsert == Init /\ [][NextUpsert]_vars

\* the number of rows of tbl with this id
RowCount(tbl, id) == Cardinality({i \in DOMAIN tbl : tbl[i].id = id})

\* C36: RegisterHook is an upsert keyed by hook id.  The store never holds
\* two hook rows with one id; a call that succeeds leaves one row for its id
\* with the event, handler, priority and enabled flag of the call and every
\* other row as it was; a call with no id adds a row under an id no row had;
\* and an Emit call finds each enabled hook row of its event once and invokes
\* it once.
C36_HookUpsert ==
    /\ [](\A i \in DOMAIN hooksTbl : RowCount(hooksTbl, hooksTbl[i].id) = 1)
    /\ [][(regOp'.flip # regOp.flip /\ regOp'.name = "RegisterHook") =>
            LET h == regOp'.arg
                id == IF h.id = "" THEN Uuid(uuidCtr') ELSE h.id IN
            IF regOp'.ok
            THEN /\ RowCount(hooksTbl', id) = 1
                 /\ h.id = "" => ~HasRow(hooksTbl, id) /\ uuidCtr' # uuidCtr
                 /\ Len(hooksTbl') = Len(hooksTbl) + (IF HasRow(hooksTbl, id) THEN 0 ELSE 1)
                 /\ \A i \in DOMAIN hooksTbl' :
                      IF hooksTbl'[i].id = id
                      THEN /\ hooksTbl'[i].event = h.event
                           /\ hooksTbl'[i].handler = h.handler
                           /\ hooksTbl'[i].priority = h.priority
                           /\ hooksTbl'[i].enabled = h.enabled
                      ELSE i \in DOMAIN hooksTbl /\ hooksTbl'[i] = hooksTbl[i]
            ELSE hooksTbl' = hooksTbl]_vars
    /\ [][(emit["e1"].pc \in {"idle", "returned"} /\ emit'["e1"] # emit["e1"]) =>
            \A i \in DOMAIN hooksTbl :
               Cardinality({j \in DOMAIN emit'["e1"].hooks :
                               emit'["e1"].hooks[j].id = hooksTbl[i].id}) =
                  IF hooksTbl[i].enabled /\ hooksTbl[i].event = emit'["e1"].event
                  THEN 1 ELSE 0]_vars
    /\ [](emit["e1"].pc = "returned" =>
            \A j \in DOMAIN emit["e1"].hooks :
               Cardinality({k \in DOMAIN emit["e1"].trace :
                               emit["e1"].trace[k].id = emit["e1"].hooks[j].id}) = 1)

\* h1 was registered, registered again with another handler and priority,
\* a hook without id was registered, and a call on "x" has invoked both
C36_Witness ==
    /\ Len(hooksTbl) = 2
    /\ \E i \in DOMAIN hooksTbl : hooksTbl[i].id = "h1" /\ hooksTbl[i].priority = 3
    /\ \E i \in DOMAIN hooksTbl : hooksTbl[i].id \notin {"h1", ""}
    /\ regOp.name = "RegisterHook" /\ regOp.arg.id = "h1" /\ regOp.arg.priority = 3
    /\ emit["e1"].pc = "returned" /\ Len(emit["e1"].trace) = 2


(***************************************************************************)
(* SpecShutdown: Chat.shutdown called by the signal goroutine and by the   *)
(* main goroutine (end of input, exit command), around a sync.Once.        *)
(***************************************************************************)
\* the steps of the function handed to shutdownOnce.Do, in program order
ShutdownSteps == <<"session_end", "cancel", "engine_cancel", "engine_close">>

\* the main goroutine has left shutdown: Run returns and main ends, or
\* handleIntent calls os.Exit(0); either way the process is over
Exited == chat.pc["eof"] = "returned" \/ chat.pc["exit"] = "returned"

\* the other variables of the chat and of the histories stay as they are
ShutdownQuiet ==
    UNCHANGED <<regOp, hist, sliceVars, calls, parseVars, lastReload,
                lockVars, subs>>

\* hooks := mm.hooks[event] for an event that may have no entry in the map
EventHooks(e) == IF e \in DOMAIN mmHooks THEN Lookup(mmHooks, e) ELSE <<>>

\* a caller reaches c.shutdown(): the signal goroutine after <-sigCh, the
\* main goroutine after io.EOF or on IntentExit (one of the two)
ShutdownCall(c) ==
    /\ ~Exited
    /\ chat.pc[c] = "idle"
    /\ c = "eof" => chat.pc["exit"] = "idle"
    /\ c = "exit" => chat.pc["eof"] = "idle"
    /\ chat' = [chat EXCEPT !.pc[c] = "do"]
    /\ UNCHANGED <<cfgVars, tblVars, regVars, dbgVars, emitVars, engVars>>

\* a Do that runs the function for every caller
OnceDo_Unguarded(c) ==
    /\ ~Exited
    /\ chat.pc[c] = "do"
    /\ chat' = [chat EXCEPT !.once = "running", !.pc[c] = "session_end"]
    /\ UNCHANGED <<cfgVars, tblVars, regVars, dbgVars, emitVars, engVars>>

\* c.shutdownOnce.Do(func): the first caller runs the function; a caller
\* that arrives while it runs waits for it to return; a later caller
\* returns at once
OnceDo(c) ==
    /\ ~Exited
    /\ chat.pc[c] = "do"
    /\ \/ /\ chat.once = "idle"
          /\ chat' = [chat EXCEPT !.once = "running", !.pc[c] = "session_end"]
       \/ /\ chat.once = "done"
          /\ chat' = [chat EXCEPT !.pc[c] = "returned"]
    /\ UNCHANGED <<cfgVars, tblVars, regVars, dbgVars, emitVars, engVars>>

\* c.modules.Emit("session_end", ...): the lookup finds no hook and Emit
\* returns nil
ShutdownEmit(c) ==
    /\ ~Exited
    /\ chat.pc[c] = "session_end"
    /\ Len(EventHooks("session_end")) = 0
    /\ chat' = [chat EXCEPT !.pc[c] = "cancel", !.log = Append(@, "session_end")]
    /\ UNCHANGED <<cfgVars, tblVars, regVars, dbgVars, emitVars, engVars>>

\* c.cancel(); c.rl.Close()
ShutdownCancel(c) ==
    /\ ~Exited
    /\ chat.pc[c] = "cancel"
    /\ chat' = [chat EXCEPT !.pc[c] = "engine_cancel", !.log = Append(@, "cancel")]
    /\ UNCHANGED <<cfgVars, tblVars, regVars, dbgVars, emitVars, engVars>>

\* c.engine.Close(), first statement: e.cancel()
ShutdownEngineCancel(c) ==
    /\ ~Exited
    /\ chat.pc[c] = "engine_cancel"
    /\ CloseCancel
    /\ chat' = [chat EXCEPT !.pc[c] = "engine_close",
                            !.log = Append(@, "engine_cancel")]

\* c.engine.Close(), the checkpoint and e.db.Close(); the function returns
\* and the Once is done
ShutdownEngineClose(c) ==
    /\ ~Exited
    /\ chat.pc[c] = "engine_close"
    /\ CloseDB
    /\ chat' = [chat EXCEPT !.pc[c] = "returned", !.once = "done",
                            !.log = Append(@, "engine_close")]

NextShutdown ==
    \/ /\ ShutdownQuiet /\ UNCHANGED <<engVars, chat>>
       /\ \A c \in Callers : chat.pc[c] = "idle"
       /\ ~HasRow(modulesTbl, "debug")
       /\ RegisterModule(Mod("debug", TRUE, 1, ""), "done", "ok")
    \/ /\ ShutdownQuiet /\ UNCHANGED <<engVars, chat>>
       /\ \A c \in Callers : chat.pc[c] = "idle"
       /\ \E h \in {Hk("hw", "debug", Wildcard, "debug", 1, TRUE),
                    Hk("h1", "debug", "x", "log", 10, TRUE)} :
             ~HasRow(hooksTbl, h.id) /\ RegisterHook(h, "done", "ok")
    \/ ShutdownQuiet /\ UNCHANGED <<engVars, chat>> /\ ~Exited /\ EnableDebug
    \/ ShutdownQuiet /\ UNCHANGED <<engVars, chat>> /\ ~Exited /\ DisableDebug
    \/ ShutdownQuiet /\ \E c \in Callers : ShutdownCall(c)
    \/ ShutdownQuiet /\ \E c \in Callers : OnceDo(c)
    \/ ShutdownQuiet /\ \E c \in Callers : ShutdownEmit(c)
    \/ ShutdownQuiet /\ \E c \in Callers : ShutdownCancel(c)
    \/ ShutdownQuiet /\ \E c \in Callers : ShutdownEngineCancel(c)
    \/ ShutdownQuiet /\ \E c \in Callers : ShutdownEngineClose(c)
    \/ ShutdownQuiet /\ UNCHANGED chat /\ ~Exited /\ DoneCase

SpecShutdown == Init /\ [][NextShutdown]_vars

\* SpecShutdown with scheduling: a goroutine that is inside shutdown keeps
\* running (nothing in the function waits for another goroutine)
SpecShutdownLive ==
    /\ SpecShutdown
    /\ WF_vars(ShutdownQuiet /\ \E c \in Callers : OnceDo(c))
    /\ WF_vars(ShutdownQuiet /\ \E c \in Callers : ShutdownEmit(c))
    /\ WF_vars(ShutdownQuiet /\ \E c \in Callers : ShutdownCancel(c))
    /\ WF_vars(ShutdownQuiet /\ \E c \in Callers : ShutdownEngineCancel(c))
    /\ WF_vars(ShutdownQuiet /\ \E c \in Callers : ShutdownEngineClose(c))

\* the first n steps of the shutdown sequence
StepsUpTo(n) == SubSeq(ShutdownSteps, 1, n)

C38_SnapshotDispatch ==
    /\ [][\A p \in Procs :
            emit[p].pc \in {"loop", "handler"} =>
               /\ emit'[p].hooks = emit[p].hooks
               /\ emit'[p].event = emit[p].event]_vars
    /\ [](\A p \in Procs :
            emit[p].pc \in {"loop", "handler", "returned"} =>
               /\ Len(emit[p].trace) <= Len(ResolvedHooks(emit[p].hooks))
               /\ emit[p].trace =
                     SubSeq(ResolvedHooks(emit[p].hooks), 1, Len(emit[p].trace)))
    /\ [](\A p \in Procs :
            emit[p].pc = "returned" =>
               emit[p].trace = ResolvedHooks(emit[p].hooks))

\* the handler of h1 runs as second hook of a call on "x" while the registry,
\* reloaded after h1 was registered again as disabled on "y", no longer
\* holds h1 on "x"
C38_Witness ==
    \E p \in Procs :
       /\ emit[p].pc = "handler" /\ emit[p].event = "x" /\ emit[p].idx = 2
       /\ emit[p].trace[2].id = "h1"
       /\ Len(mmHooks["x"]) = 1 /\ mmHooks["x"][1].id # "h1"
       /\ emit[p].hooks # mmHooks["x"]


(***************************************************************************)
(* SpecOrphan: a module registered again as disabled or enabled while its  *)
(* hooks stay enabled; hist holds, for the latest Emit call, the module    *)
(* ids of the module map at the lookup.                                    *)
(***************************************************************************)
\* Emit up to the loop, recorded
OrphanCall(p, e) ==
    /\ EmitCall(p, e)
    /\ hist' = <<[mods |-> {m.id : m \in mmModules},
                   hooks |-> Lookup(mmHooks, e)]>>
    /\ UNCHANGED <<regOp, auxVars>>

NextOrphan ==
    \/ Quiet /\ \E en \in BOOLEAN :
                  RegisterModule(Mod("m1", en, 50, ""), "done", "ok")
    \/ Quiet /\ \E h \in {Hk("h1", "m1", "x", "log", 10, TRUE),
                          Hk("h2", "m1", "x", "debug", 5, TRUE),
                          Hk("h2", "m1", "x", "debug", 5, FALSE)} :
                  \E res \in {"exec_err", "done"} : RegisterHook(h, res, "ok")
    \/ Quiet /\ ~debugEnabled /\ EnableDebug
    \/ /\ ~Crashed /\ debugEnabled
       /\ uuidCtr + 1 + Len(Lookup(mmHooks, "x")) <= MaxTraceIds + 1
       /\ \E p \in Procs : OrphanCall(p, "x")
    \/ Quiet /\ \E p \in Procs : EmitHook(p)
    \/ Quiet /\ \E p \in Procs : EmitHandlerReturn(p, "nil", TRUE)

SpecOrphan == Init /\ [][NextOrphan]_vars

\* C39: hook loading does not look at the module's enabled flag.  Every
\* enabled hook row is in the event index whether its module is enabled,
\* and so in the module map, or not; the lookup of an Emit call finds every
\* enabled hook row of the event; and the call invokes every one of them
\* whose handler resolves, also when the module map had no entry for the
\* owning module at the lookup.
C39_HooksOfDisabledModule ==
    /\ [](\A i \in DOMAIN hooksTbl :
            hooksTbl[i].enabled =>
               \E j \in DOMAIN mmHooks[hooksTbl[i].event] :
                  mmHooks[hooksTbl[i].event][j] = hooksTbl[i])
    /\ [](\A m \in mmModules :
            \E i \in DOMAIN modulesTbl :
               modulesTbl[i].id = m.id /\ modulesTbl[i].enabled)
    /\ [][\A p \in Procs :
            (emit[p].pc \in {"idle", "returned"} /\ emit'[p] # emit[p]) =>
               \A i \in DOMAIN hooksTbl :
                  (hooksTbl[i].enabled /\ hooksTbl[i].event = emit'[p].event) =>
                     \E j \in DOMAIN emit'[p].hooks :
                        emit'[p].hooks[j] = hooksTbl[i]]_vars
    /\ [](\A p \in Procs :
            (emit[p].pc = "returned" /\ hist # <<>>) =>
               \A j \in DOMAIN hist[Len(hist)].hooks :
                  hist[Len(hist)].hooks[j].handler \in builtinHandlers =>
                     hist[Len(hist)].hooks[j] \in Invoked(emit[p]))

\* m1 was registered again as disabled; a call whose lookup found the module
\* map empty has invoked both hooks of m1
C39_Witness ==
    \E p \in Procs :
       /\ emit[p].pc = "returned" /\ Len(emit[p].trace) = 2
       /\ \A k \in DOMAIN emit[p].trace : emit[p].trace[k].module = "m1"
       /\ hist # <<>> /\ hist[Len(hist)].mods = {}
       /\ mmModules = {}
       /\ \E i \in DOMAIN modulesTbl :
             modulesTbl[i].id = "m1" /\ ~modulesTbl[i].enabled


(***************************************************************************)
(* SpecProbe: module and hook rows written directly in the store while the *)
(* notifier runs; no SetConfig, no RegisterModule, no RegisterHook.        *)
(***************************************************************************)
NextProbe ==
    \/ StoreWrite
    \/ ~Crashed /\ \E err \in BOOLEAN : TickerCase(err)
    \/ UNCHANGED auxVars /\ WatcherRun("ok")
    \/ UNCHANGED auxVars /\ ReceiveReload

SpecProbe == Init /\ [][NextProbe]_vars

\* C40: the probe of the notifier reads config rows only.  While module and
\* hook rows are changed directly in the store, with no config Set and no
\* registration call, no pass of the notifier broadcasts or pushes a reload
\* signal, no watcher callback is started, and the registry keeps the
\* content it had.
C40_ProbeReadsConfigOnly ==
    /\ [][IsTick => ~lastTick'.notified]_vars
    /\ [](pendingCb = 0 /\ reloadCh = 0)
    /\ [][mmModules' = mmModules /\ mmHooks' = mmHooks]_vars

====
